---- MODULE Spec2Model ----
(***************************************************************************)
(* DORA MCP server (Snowwpanda/dora_mcp): the query builder and the        *)
(* transport adapter of src/src/dora_mcp/server.py.                        *)
(*                                                                         *)
(* A text is a sequence of strings ("chunks").  A search term and every    *)
(* string built from one (query parts, the encoded query) hold one         *)
(* character per chunk, so that percent-encoding is computed character by  *)
(* character.  A string literal of the source that is only ever compared   *)
(* as a whole (a tool name, a JSON-RPC method, a message prefix) is one    *)
(* chunk.                                                                  *)
(***************************************************************************)
EXTENDS Integers, Sequences, FiniteSets, Bags, TLC

VARIABLES
    term,       \* query-builder run: the search term handed to build_search_query
    query,      \* query-builder run: the string it returned (<<>> before the call)
    inflight,   \* server run: the bag of requests awaiting their outbound GET
    returned,   \* server run: the exchange that finished last (request, GETs, reply, outcome)
    environ,    \* the environment variables main reads
    running,    \* what main has started: a transport, or the exception it ended with
    variant,    \* the program that runs: "server", "client" (DoraClient) or "validate_urls"
    closes      \* how often dora_client.close() has been called

vars == <<term, query, inflight, returned, environ, running, variant, closes>>

(***************************************************************************)
(* Bounds of the model.                                                    *)
(***************************************************************************)
MaxTermLen == 3
MaxInFlight == 2

(***************************************************************************)
(* Characters and urllib.parse.quote / unquote.                            *)
(***************************************************************************)
UpperCase == {"A", "B", "C", "D", "E", "F", "G", "H", "I", "J", "K", "L", "M",
              "N", "O", "P", "Q", "R", "S", "T", "U", "V", "W", "X", "Y", "Z"}
LowerCase == {"a", "b", "c", "d", "e", "f", "g", "h", "i", "j", "k", "l", "m",
              "n", "o", "p", "q", "r", "s", "t", "u", "v", "w", "x", "y", "z"}
Digits == {"0", "1", "2", "3", "4", "5", "6", "7", "8", "9"}
HexDigits == Digits \cup {"A", "B", "C", "D", "E", "F", "a", "b", "c", "d", "e", "f"}

\* quote() never encodes letters, digits and "_.-~"
AlwaysSafe == UpperCase \cup LowerCase \cup Digits \cup {"_", ".", "-", "~"}

\* the default of quote()'s parameter safe
DefaultSafe == {"/"}

\* "%XX" of the reserved characters the model's texts are made of
PercentCode(c) ==
    CASE c = " " -> <<"%", "2", "0">>
      [] c = "%" -> <<"%", "2", "5">>
      [] c = "&" -> <<"%", "2", "6">>
      [] c = "'" -> <<"%", "2", "7">>
      [] c = "(" -> <<"%", "2", "8">>
      [] c = ")" -> <<"%", "2", "9">>
      [] c = "*" -> <<"%", "2", "A">>
      [] c = ":" -> <<"%", "3", "A">>
      [] c = "[" -> <<"%", "5", "B">>
      [] c = "]" -> <<"%", "5", "D">>
      [] c = "^" -> <<"%", "5", "E">>

\* the concatenation of the texts pieces[lo], ..., pieces[hi]
RECURSIVE ConcatRange(_, _, _)
ConcatRange(pieces, lo, hi) ==
    IF lo > hi THEN <<>>
    ELSE IF lo = hi THEN pieces[lo]
    ELSE ConcatRange(pieces, lo, (lo + hi) \div 2)
         \o ConcatRange(pieces, (lo + hi) \div 2 + 1, hi)

Flatten(pieces) == ConcatRange(pieces, 1, Len(pieces))

\* quote(s, safe): a character that is always safe or in safe stays, any
\* other becomes its "%XX"
QuoteWith(s, safe) ==
    Flatten([i \in 1..Len(s) |->
                IF s[i] \in AlwaysSafe \cup safe THEN <<s[i]>> ELSE PercentCode(s[i])])

\* quote as it would be if "%" were passed through unencoded
Quote_percent_kept(s) == QuoteWith(s, DefaultSafe \cup {"%"})

\* quote as it would be if "&" counted as safe
Quote_amp_kept(s) == QuoteWith(s, DefaultSafe \cup {"&"})

\* quote as it would be if it left the space as it is
Quote_space_kept(s) == QuoteWith(s, DefaultSafe \cup {" "})

\* quote(part): the default safe set
Quote(s) == QuoteWith(s, DefaultSafe)

\* the character a "%XX" escape stands for (escapes of other bytes do not
\* occur in what Quote produces from the model's texts)
ByteChar(h1, h2) ==
    CASE h1 = "2" /\ h2 = "0" -> " "
      [] h1 = "2" /\ h2 = "5" -> "%"
      [] h1 = "2" /\ h2 = "6" -> "&"
      [] h1 = "2" /\ h2 = "7" -> "'"
      [] h1 = "2" /\ h2 = "8" -> "("
      [] h1 = "2" /\ h2 = "9" -> ")"
      [] h1 = "2" /\ h2 = "A" -> "*"
      [] h1 = "3" /\ h2 = "A" -> ":"
      [] h1 = "5" /\ h2 = "B" -> "["
      [] h1 = "5" /\ h2 = "D" -> "]"
      [] h1 = "5" /\ h2 = "E" -> "^"
      [] OTHER -> "?"

\* an escape starts at position i of s: "%" and two hex digits
EscapeAt(s, i) ==
    /\ 1 <= i /\ i + 2 <= Len(s)
    /\ s[i] = "%" /\ s[i + 1] \in HexDigits /\ s[i + 2] \in HexDigits

\* urllib.parse.unquote: "%" followed by two hex digits is one character,
\* any other "%" stays as it is.  The two digits of an escape are no "%",
\* so where the escapes start does not depend on the scan before them.
Unquote(s) ==
    Flatten([i \in 1..Len(s) |->
                IF EscapeAt(s, i) THEN <<ByteChar(s[i + 1], s[i + 2])>>
                ELSE IF EscapeAt(s, i - 1) \/ EscapeAt(s, i - 2) THEN <<>>
                ELSE <<s[i]>>])

\* sep.join(parts)
Join(sep, parts) ==
    Flatten([i \in 1..Len(parts) |-> IF i = 1 THEN parts[i] ELSE sep \o parts[i]])

\* sub in s
Contains(s, sub) ==
    \E i \in 1..(Len(s) - Len(sub) + 1) : SubSeq(s, i, i + Len(sub) - 1) = sub

\* the positions of s at which sub starts
Occurrences(s, sub) ==
    {i \in 1..(Len(s) - Len(sub) + 1) : SubSeq(s, i, i + Len(sub) - 1) = sub}

\* s.split(sep): the pieces between the occurrences of sep found from the
\* left, none overlapping the one before
RECURSIVE Split(_, _)
Split(s, sep) ==
    LET found == Occurrences(s, sep)
        first == CHOOSE i \in found : \A j \in found : i <= j
    IN  IF found = {}
        THEN <<s>>
        ELSE <<SubSeq(s, 1, first - 1)>> \o Split(SubSeq(s, first + Len(sep), Len(s)), sep)

(***************************************************************************)
(* build_search_query                                                      *)
(***************************************************************************)
F_title == <<"m", "o", "d", "s", "_", "t", "i", "t", "l", "e", "I", "n", "f", "o",
             "_", "t", "i", "t", "l", "e", "_", "m", "t">>
F_abstract == <<"m", "o", "d", "s", "_", "a", "b", "s", "t", "r", "a", "c", "t",
                "_", "m", "s">>
F_creator == <<"d", "c", ".", "c", "r", "e", "a", "t", "o", "r">>
F_authors == <<"m", "o", "d", "s", "_", "e", "x", "t", "e", "n", "s", "i", "o", "n",
               "_", "o", "r", "i", "g", "i", "n", "a", "l", "A", "u", "t", "h", "o",
               "r", "L", "i", "s", "t", "_", "m", "t">>
F_contributor == <<"d", "c", ".", "c", "o", "n", "t", "r", "i", "b", "u", "t", "o", "r">>
F_type == <<"d", "c", ".", "t", "y", "p", "e">>
F_catchall == <<"c", "a", "t", "c", "h", "_", "a", "l", "l", "_", "M", "O", "D", "S",
                "_", "m", "t">>

\* the clause as it would be with the search string left out
FieldClause_without_term(field, search_string, weight) ==
    field \o <<":", "(">> \o <<")", "^", weight>>

\* f"{field}:({search_string})^{weight}"
FieldClause(field, search_string, weight) ==
    field \o <<":", "(">> \o search_string \o <<")", "^", weight>>

\* query_parts as it would be with the dc.contributor clause left out
query_parts_six(search_string) ==
    << FieldClause(F_title, search_string, "5"),
       FieldClause(F_abstract, search_string, "2"),
       FieldClause(F_creator, search_string, "2"),
       FieldClause(F_authors, search_string, "2"),
       FieldClause(F_type, search_string, "1"),
       FieldClause(F_catchall, search_string, "1") >>

\* query_parts as it would be with the abstract weighted like the title
query_parts_abstract5(search_string) ==
    << FieldClause(F_title, search_string, "5"),
       FieldClause(F_abstract, search_string, "5"),
       FieldClause(F_creator, search_string, "2"),
       FieldClause(F_authors, search_string, "2"),
       FieldClause(F_contributor, search_string, "1"),
       FieldClause(F_type, search_string, "1"),
       FieldClause(F_catchall, search_string, "1") >>

query_parts(search_string) ==
    << FieldClause(F_title, search_string, "5"),
       FieldClause(F_abstract, search_string, "2"),
       FieldClause(F_creator, search_string, "2"),
       FieldClause(F_authors, search_string, "2"),
       FieldClause(F_contributor, search_string, "1"),
       FieldClause(F_type, search_string, "1"),
       FieldClause(F_catchall, search_string, "1") >>

\* the literal "%20OR%20" the encoded parts are joined with
OrSeparator == <<"%", "2", "0", "O", "R", "%", "2", "0">>

build_search_query(search_string) ==
    Join(OrSeparator,
         [i \in 1..Len(query_parts(search_string)) |-> Quote(query_parts(search_string)[i])])

(***************************************************************************)
(* Search terms of the query-builder run: every text of at most MaxTermLen *)
(* characters over TermAlphabet, and the terms the tests use.              *)
(***************************************************************************)
TermAlphabet == {"a", " ", "%", ":", "(", ")", "^", "&"}

T_manfred == <<"m", "a", "n", "f", "r", "e", "d", " ", "h", "e", "u", "b", "e", "r",
               "g", "e", "r">>
T_testquery == <<"t", "e", "s", "t", " ", "q", "u", "e", "r", "y">>
T_amp == <<"t", "e", "s", "t", " ", "&", " ", "q", "u", "e", "r", "y">>
T_or == <<"a", " ", "O", "R", " ", "b">>
T_sep == <<"%", "2", "0", "O", "R", "%", "2", "0">>
T_oror == <<"x", " ", "O", "R", " ", "O", "R", " ", "y">>

BoundedTerms == UNION {[1..n -> TermAlphabet] : n \in 0..MaxTermLen}

Terms == BoundedTerms \cup {T_manfred, T_testquery, T_amp, T_or, T_sep, T_oror}

(***************************************************************************)
(* JSON values and Python values.  A value is a record tagged by t.        *)
(***************************************************************************)
JNull == [t |-> "null"]
JStr(s) == [t |-> "str", s |-> s]
JNum(n) == [t |-> "num", n |-> n]
JArr(items) == [t |-> "arr", items |-> items]
JObj(o) == [t |-> "obj", o |-> o]

\* a request body that is not JSON: request.json() raises on it
NotJson == [t |-> "invalid"]

\* a member left out of an object the model builds
Absent == [t |-> "absent"]

NoMembers == [k \in {} |-> JNull]
Member(key, v) == IF v = Absent THEN NoMembers ELSE key :> v

\* dict.get(key, default)
Get(v, key, default) == IF key \in DOMAIN v.o THEN v.o[key] ELSE default

\* not v
Falsy(v) ==
    \/ v.t = "null"
    \/ v.t = "str" /\ v.s = <<>>
    \/ v.t = "num" /\ v.n = 0
    \/ v.t = "arr" /\ v.items = <<>>
    \/ v.t = "obj" /\ DOMAIN v.o = {}

\* type(v).__name__
TypeName(v) ==
    CASE v.t = "null" -> "NoneType"
      [] v.t = "str" -> "str"
      [] v.t = "num" -> "int"
      [] v.t = "arr" -> "list"
      [] v.t = "obj" -> "dict"

RECURSIVE ReprItemsFrom(_, _)
ReprItemsFrom(items, i) ==
    IF i > Len(items) THEN <<>>
    ELSE <<"'">> \o items[i].s \o <<"'">>
         \o (IF i < Len(items) THEN <<", ">> ELSE <<>>) \o ReprItemsFrom(items, i + 1)

DecimalDigit == <<"0", "1", "2", "3", "4", "5", "6", "7", "8", "9">>

\* str(n) of a natural number, one character per chunk
RECURSIVE DecimalText(_)
DecimalText(n) ==
    IF n < 10 THEN <<DecimalDigit[n + 1]>>
    ELSE DecimalText(n \div 10) \o <<DecimalDigit[(n % 10) + 1]>>

\* str(v), as an f-string formats v
PyStr(v) ==
    CASE v.t = "null" -> <<"N", "o", "n", "e">>
      [] v.t = "str" -> v.s
      [] v.t = "num" -> DecimalText(v.n)
      [] v.t = "arr" -> <<"[">> \o ReprItemsFrom(v.items, 1) \o <<"]">>
      [] v.t = "obj" ->
            IF DOMAIN v.o = {} THEN <<"{}">>
            ELSE <<"{'response': {'docs': [">>
                 \o ReprItemsFrom(v.o["response"].o["docs"].items, 1) \o <<"]}}">>

\* the message of the AttributeError that v.get raises when v is no dict
NoGetMessage(v) == <<"'", TypeName(v), "' object has no attribute 'get'">>

\* the message of the error request.json() raises on a body that is not JSON
JsonDecodeMessage == <<"Expecting value: line 1 column 1 (char 0)">>

(***************************************************************************)
(* What a handler ends with: an HTTP response, a returned value, or an     *)
(* exception that leaves it.                                               *)
(***************************************************************************)
JSONResponse(body, status_code) ==
    [kind |-> "http", status |-> status_code, body |-> body, exc |-> "", msg |-> <<>>]
Return(value) ==
    [kind |-> "return", status |-> 0, body |-> value, exc |-> "", msg |-> <<>>]
Raise(exc, msg) ==
    [kind |-> "raise", status |-> 0, body |-> JNull, exc |-> exc, msg |-> msg]
NoOutcome ==
    [kind |-> "none", status |-> 0, body |-> JNull, exc |-> "", msg |-> <<>>]

(***************************************************************************)
(* search_dora_publications: the outbound GET and what becomes of its      *)
(* reply.                                                                  *)
(***************************************************************************)
DORA_BASE_URL == <<"https://www.dora.lib4ri.ch/empa">>
DORA_SEARCH_ENDPOINT == DORA_BASE_URL \o <<"/islandora/search/json_cit_a">>

SearchTimeout == 30

\* client.get(url, params=params) under AsyncClient(timeout=30.0)
search_get(search_string) ==
    [url |-> DORA_SEARCH_ENDPOINT \o <<"/">> \o build_search_query(search_string),
     search_string |-> search_string,
     extension |-> <<"false">>,
     timeout |-> SearchTimeout]

\* the outbound requests of one call of search_dora_publications: the one
\* client.get of its try block
\* search_requests as it would be if the GET were sent a second time
search_requests_twice(search_string) ==
    <<search_get(search_string), search_get(search_string)>>

search_requests(search_string) == <<search_get(search_string)>>

\* the JSON documents the upstream service answers with: a list of
\* publications, or an object that carries them as response.docs
Pub1 == JStr(<<"pub1">>)
Pub2 == JStr(<<"pub2">>)
UpstreamValues ==
    {JObj("response" :> JObj("docs" :> JArr(<<Pub1, Pub2>>))), JArr(<<Pub1, Pub2>>)}

\* the number of publications a reply carries
publication_count(result) ==
    IF result.t = "arr" THEN Len(result.items)
    ELSE IF result.t = "obj" /\ "response" \in DOMAIN result.o
            /\ result.o["response"].t = "obj" /\ "docs" \in DOMAIN result.o["response"].o
    THEN Len(result.o["response"].o["docs"].items)
    ELSE 0

\* how the GET ends: a 2xx reply with a JSON body, or one of the failures
NoReply == [kind |-> "none", value |-> JNull]
Replies ==
    {[kind |-> "json", value |-> v] : v \in UpstreamValues}
    \cup {[kind |-> k, value |-> JNull] :
            k \in {"connect_error", "timeout", "http_status", "not_json"}}

\* the exception class a failed GET raises
ReplyException(reply) ==
    CASE reply.kind = "connect_error" -> "httpx.ConnectError"
      [] reply.kind = "timeout" -> "httpx.ReadTimeout"
      [] reply.kind = "http_status" -> "httpx.HTTPStatusError"
      [] reply.kind = "not_json" -> "json.JSONDecodeError"

ReplyMessage(reply) ==
    CASE reply.kind = "connect_error" -> <<"All connection attempts failed">>
      [] reply.kind = "timeout" -> <<"The read operation timed out">>
      [] reply.kind = "http_status" -> <<"Server error '500 Internal Server Error'">>
      [] reply.kind = "not_json" -> JsonDecodeMessage

\* the try block of search_dora_publications: the value of response.json(),
\* or the exception, which both except clauses log and raise again
search_dora_publications(reply) ==
    IF reply.kind = "json"
    THEN [raised |-> FALSE, value |-> reply.value, exc |-> "", msg |-> <<>>]
    ELSE [raised |-> TRUE, value |-> JNull,
          exc |-> ReplyException(reply), msg |-> ReplyMessage(reply)]

(***************************************************************************)
(* list_tools and the tool listings of the HTTP surfaces.                  *)
(***************************************************************************)
SearchStringSchema ==
    JObj("type" :> JStr(<<"string">>)
         @@ "description" :> JStr(<<"The search term to query. Can be an author name, ",
                                    "title keyword, or any search term. Example: 'manfred heuberger'">>))

\* list_tools as it would be with the schema's required list left out
list_tools_nothing_required ==
    << [name |-> <<"search_publications">>,
        description |-> <<"Search the ", "DORA",
                          " (Digital Object Repository for Academia) database ",
                          "for scientific publications. Searches across titles, abstracts, ",
                          "authors, and other metadata fields. Returns a list of publications ",
                          "matching the search criteria.">>,
        inputSchema |-> JObj("type" :> JStr(<<"object">>)
                             @@ "properties" :> JObj("search_string" :> SearchStringSchema))] >>

list_tools ==
    << [name |-> <<"search_publications">>,
        description |-> <<"Search the ", "DORA",
                          " (Digital Object Repository for Academia) database ",
                          "for scientific publications. Searches across titles, abstracts, ",
                          "authors, and other metadata fields. Returns a list of publications ",
                          "matching the search criteria.">>,
        inputSchema |-> JObj("type" :> JStr(<<"object">>)
                             @@ "properties" :> JObj("search_string" :> SearchStringSchema)
                             @@ "required" :> JArr(<<JStr(<<"search_string">>)>>))] >>

\* {"name": tool.name, "description": tool.description, "inputSchema": tool.inputSchema}
ToolJson(tool) ==
    JObj("name" :> JStr(tool.name)
         @@ "description" :> JStr(tool.description)
         @@ "inputSchema" :> tool.inputSchema)

\* [ {...} for tool in tools ]
ToolsJson(tools) == JArr([i \in 1..Len(tools) |-> ToolJson(tools[i])])

\* GET /tools
tools_endpoint == JSONResponse(JObj("tools" :> ToolsJson(list_tools)), 200)

\* GET /health
health_endpoint ==
    JSONResponse(JObj("status" :> JStr(<<"healthy">>)
                      @@ "service" :> JStr(<<"dora-mcp">>)
                      @@ "transport" :> JStr(<<"http-streamable">>)), 200)

\* GET /mcp as it would be if it listed the tools by name only
mcp_get_names_only ==
    JSONResponse(
        JObj("message" :> JStr(<<"DORA MCP Server">>)
             @@ "available_tools" :>
                  JArr([i \in 1..Len(list_tools) |-> JObj("name" :> JStr(list_tools[i].name))])),
        200)

\* GET /mcp
mcp_get ==
    JSONResponse(
        JObj("message" :> JStr(<<"DORA MCP Server">>)
             @@ "version" :> JStr(<<"1.0.0">>)
             @@ "usage" :> JObj("method" :> JStr(<<"POST">>)
                                @@ "protocol" :> JStr(<<"mcp-streamable-1.0">>)
                                @@ "instructions" :>
                                     JArr(<<JStr(<<"Send POST requests with JSON-RPC 2.0 format">>),
                                            JStr(<<"Include method and params in request body">>),
                                            JStr(<<"Supported methods: ", "initialize", ", ",
                                                   "tools/list", ", ", "tools/call">>)>>))
             @@ "available_tools" :> ToolsJson(list_tools)
             @@ "documentation" :> JStr(<<"https://github.com/Snowwpanda/dora_mcp">>)),
        200)

\* GET /openapi-copilot.json, lines 524-589: the document describes POST /mcp
\* with the body schema of a JSON-RPC request
openapi_copilot_endpoint ==
    JSONResponse(
        JObj("swagger" :> JStr(<<"2.0">>)
             @@ "basePath" :> JStr(<<"/">>)
             @@ "paths" :>
                  JObj("/mcp" :>
                       JObj("post" :>
                            JObj("x-ms-agentic-protocol" :> JStr(<<"mcp-streamable-1.0">>)
                                 @@ "operationId" :> JStr(<<"InvokeMCP">>)
                                 @@ "parameters" :>
                                      JArr(<<JObj("name" :> JStr(<<"body">>)
                                                  @@ "in" :> JStr(<<"body">>)
                                                  @@ "schema" :>
                                                       JObj("type" :> JStr(<<"object">>)
                                                            @@ "properties" :>
                                                                 JObj("jsonrpc" :> JObj("enum" :> JArr(<<JStr(<<"2.0">>)>>))
                                                                      @@ "id" :> JObj("type" :> JStr(<<"integer">>))
                                                                      @@ "method" :>
                                                                           JObj("type" :> JStr(<<"string">>)
                                                                                @@ "enum" :>
                                                                                     JArr(<<JStr(<<"initialize">>),
                                                                                            JStr(<<"tools/list">>),
                                                                                            JStr(<<"tools/call">>)>>))
                                                                      @@ "params" :> JObj("type" :> JStr(<<"object">>)))))>>))))),
        200)

(***************************************************************************)
(* The routes of the Starlette application, lines 749-763.                 *)
(***************************************************************************)
\* Route(path, endpoint, methods): a route without methods serves GET
Routes ==
    {[path |-> "/", methods |-> {"GET"}],
     [path |-> "/health", methods |-> {"GET"}],
     [path |-> "/tools", methods |-> {"GET"}],
     [path |-> "/api/search", methods |-> {"POST"}],
     [path |-> "/connector", methods |-> {"POST"}],
     [path |-> "/openapi.json", methods |-> {"GET"}],
     [path |-> "/openapi-connector.json", methods |-> {"GET"}],
     [path |-> "/openapi-copilot.json", methods |-> {"GET"}],
     [path |-> "/openapi-minimal.json", methods |-> {"GET"}],
     [path |-> "/mcp", methods |-> {"GET", "POST"}]}

\* what the router answers for a path no route matches
NotFound ==
    [kind |-> "http", status |-> 404, body |-> JStr(<<"Not Found">>), exc |-> "", msg |-> <<>>]

\* what the router answers for a routed path asked with another method
MethodNotAllowed ==
    [kind |-> "http", status |-> 405, body |-> JStr(<<"Method Not Allowed">>),
     exc |-> "", msg |-> <<>>]

\* a route matches the path and serves the method
Routed(path, method) == \E r \in Routes : r.path = path /\ method \in r.methods

\* the router: the endpoint's answer for a matching route, 405 for a path
\* routed with other methods only, 404 for any other path
dispatch(path, method, answer) ==
    IF Routed(path, method) THEN answer
    ELSE IF \E r \in Routes : r.path = path THEN MethodNotAllowed
    ELSE NotFound

(***************************************************************************)
(* Handlers that search.  Each is two steps: the part up to the outbound   *)
(* GET (`step` says whether it answers at once or sends the GET), and the  *)
(* part that turns the GET's end into the answer.                          *)
(***************************************************************************)
Respond(out) == [step |-> "respond", out |-> out, gets |-> <<>>]
Send(gets) == [step |-> "get", out |-> NoOutcome, gets |-> gets]

TextContent(text) == JObj("type" :> JStr(<<"text">>) @@ "text" :> JStr(text))

\* call_tool as it would be if it read the arguments before the tool name
call_tool_start_arguments_first(name, arguments) ==
    IF arguments.t # "obj"
    THEN Respond(Raise("AttributeError", NoGetMessage(arguments)))
    ELSE IF Falsy(Get(arguments, "search_string", JNull))
    THEN Respond(Raise("ValueError", <<"search_string is required">>))
    ELSE IF name # JStr(<<"search_publications">>)
    THEN Respond(Raise("ValueError", <<"Unknown tool: ">> \o PyStr(name)))
    ELSE Send(search_requests(PyStr(Get(arguments, "search_string", JNull))))

\* call_tool, lines 113-121: the checks before the search
call_tool_start(name, arguments) ==
    IF name # JStr(<<"search_publications">>)
    THEN Respond(Raise("ValueError", <<"Unknown tool: ">> \o PyStr(name)))
    ELSE IF arguments.t # "obj"
    THEN Respond(Raise("AttributeError", NoGetMessage(arguments)))
    ELSE IF Falsy(Get(arguments, "search_string", JNull))
    THEN Respond(Raise("ValueError", <<"search_string is required">>))
    ELSE Send(search_requests(PyStr(Get(arguments, "search_string", JNull))))

\* call_tool as it would be without its except clause
call_tool_finish_uncaught(search_string, reply) ==
    LET results == search_dora_publications(reply)
    IN  IF results.raised
        THEN Raise(results.exc, results.msg)
        ELSE Return(JArr(<<TextContent(<<"Search results for '">> \o PyStr(search_string)
                                       \o <<"':\n">> \o PyStr(results.value))>>))

\* call_tool, lines 121-145: the result formatted, or the error caught
call_tool_finish(search_string, reply) ==
    LET results == search_dora_publications(reply)
        shown == PyStr(search_string)
    IN  IF results.raised
        THEN Return(JArr(<<TextContent(<<"Error searching DORA: ">> \o results.msg)>>))
        ELSE IF results.value.t = "obj"
        THEN Return(JArr(<<TextContent(<<"Search results for '">> \o shown \o <<"':\n\n">>
                                       \o <<"Raw JSON response:\n">> \o PyStr(results.value))>>))
        ELSE Return(JArr(<<TextContent(<<"Search results for '">> \o shown \o <<"':\n">>
                                       \o PyStr(results.value))>>))

\* the REST endpoints as they would be without the check of search_string
rest_start_unchecked(body, required_message) ==
    IF body.t = "invalid"
    THEN Respond(JSONResponse(JObj("error" :> JStr(JsonDecodeMessage)), 500))
    ELSE IF body.t # "obj"
    THEN Respond(JSONResponse(JObj("error" :> JStr(NoGetMessage(body))), 500))
    ELSE Send(search_requests(PyStr(Get(body, "search_string", JNull))))

\* the try blocks of search_api_endpoint and connector_endpoint up to the
\* search; the two differ in the text of the 400 answer
rest_start(body, required_message) ==
    IF body.t = "invalid"
    THEN Respond(JSONResponse(JObj("error" :> JStr(JsonDecodeMessage)), 500))
    ELSE IF body.t # "obj"
    THEN Respond(JSONResponse(JObj("error" :> JStr(NoGetMessage(body))), 500))
    ELSE IF Falsy(Get(body, "search_string", JNull))
    THEN Respond(JSONResponse(JObj("error" :> JStr(required_message)), 400))
    ELSE Send(search_requests(PyStr(Get(body, "search_string", JNull))))

search_api_start(body) == rest_start(body, <<"search_string is required">>)
connector_start(body) == rest_start(body, <<"search_string parameter is required">>)

\* the REST endpoints as they would be if they answered with the publications
\* taken out of an object reply
rest_finish_docs_only(body, reply) ==
    LET results == search_dora_publications(reply)
        search_string == Get(body, "search_string", JNull)
    IN  IF results.raised
        THEN JSONResponse(JObj("error" :> JStr(results.msg)), 500)
        ELSE JSONResponse(
                 JObj("search_string" :> search_string
                      @@ "results" :> (IF results.value.t = "obj"
                                       THEN results.value.o["response"].o["docs"]
                                       ELSE results.value)
                      @@ "total" :> JNum(IF results.value.t = "arr"
                                         THEN Len(results.value.items) ELSE 0)),
                 200)

\* the REST endpoints as they would be without their except clause
rest_finish_uncaught(body, reply) ==
    LET results == search_dora_publications(reply)
        search_string == Get(body, "search_string", JNull)
    IN  IF results.raised
        THEN Raise(results.exc, results.msg)
        ELSE JSONResponse(
                 JObj("search_string" :> search_string
                      @@ "results" :> results.value
                      @@ "total" :> JNum(IF results.value.t = "arr"
                                         THEN Len(results.value.items) ELSE 0)),
                 200)

\* the REST endpoints as they would be if the term were kept in a variable
\* of the module that the request answered last has written
rest_finish_shared_term(body, reply) ==
    LET results == search_dora_publications(reply)
        search_string ==
            IF returned.req.surface \in {"api_search", "connector"} /\ returned.req.payload.t = "obj"
            THEN Get(returned.req.payload, "search_string", JNull)
            ELSE Get(body, "search_string", JNull)
    IN  IF results.raised
        THEN JSONResponse(JObj("error" :> JStr(results.msg)), 500)
        ELSE JSONResponse(
                 JObj("search_string" :> search_string
                      @@ "results" :> results.value
                      @@ "total" :> JNum(IF results.value.t = "arr"
                                         THEN Len(results.value.items) ELSE 0)),
                 200)

\* search_api_endpoint and connector_endpoint from the search on
rest_finish(body, reply) ==
    LET results == search_dora_publications(reply)
        search_string == Get(body, "search_string", JNull)
    IN  IF results.raised
        THEN JSONResponse(JObj("error" :> JStr(results.msg)), 500)
        ELSE JSONResponse(
                 JObj("search_string" :> search_string
                      @@ "results" :> results.value
                      @@ "total" :> JNum(IF results.value.t = "arr"
                                         THEN Len(results.value.items) ELSE 0)),
                 200)

(***************************************************************************)
(* mcp_streamable_endpoint, POST.                                          *)
(***************************************************************************)
JsonRpcResult(id, result) ==
    JObj("jsonrpc" :> JStr(<<"2.0">>) @@ "id" :> id @@ "result" :> result)

JsonRpcError(id, code, message) ==
    JObj("jsonrpc" :> JStr(<<"2.0">>) @@ "id" :> id
         @@ "error" :> JObj("code" :> JNum(code) @@ "message" :> JStr(message)))

\* the except clause, lines 738-747: body.get("id") if "body" in locals() else
\* None.  body is unbound when request.json() raised; a body that is no
\* dict makes body.get raise again, inside the except clause
mcp_except(body, message) ==
    IF body.t = "invalid"
    THEN JSONResponse(JsonRpcError(JNull, -32603, message), 500)
    ELSE IF body.t # "obj"
    THEN Raise("AttributeError", NoGetMessage(body))
    ELSE JSONResponse(JsonRpcError(Get(body, "id", JNull), -32603, message), 500)

\* the tools/call branch, lines 689-694, up to the search
mcp_tools_call_start(body) ==
    LET params == Get(body, "params", JObj(NoMembers))
    IN  IF params.t # "obj"
        THEN Respond(mcp_except(body, NoGetMessage(params)))
        ELSE LET started == call_tool_start(Get(params, "name", JNull),
                                            Get(params, "arguments", JObj(NoMembers)))
             IN  IF started.step = "respond"
                 THEN Respond(mcp_except(body, started.out.msg))
                 ELSE started

\* the try block as it would be if every method but tools/call were answered
\* with a result
mcp_post_start_any_method(body) ==
    IF body.t = "invalid"
    THEN Respond(mcp_except(body, JsonDecodeMessage))
    ELSE IF body.t # "obj"
    THEN Respond(mcp_except(body, NoGetMessage(body)))
    ELSE IF Get(body, "method", JNull) = JStr(<<"tools/call">>)
    THEN mcp_tools_call_start(body)
    ELSE Respond(JSONResponse(JsonRpcResult(Get(body, "id", JNull), JObj(NoMembers)), 200))

\* the try block, lines 666-736, up to the search
mcp_post_start(body) ==
    IF body.t = "invalid"
    THEN Respond(mcp_except(body, JsonDecodeMessage))
    ELSE IF body.t # "obj"
    THEN Respond(mcp_except(body, NoGetMessage(body)))
    ELSE IF Get(body, "method", JNull) = JStr(<<"tools/list">>)
    THEN Respond(JSONResponse(
             JsonRpcResult(Get(body, "id", JNull), JObj("tools" :> ToolsJson(list_tools))),
             200))
    ELSE IF Get(body, "method", JNull) = JStr(<<"tools/call">>)
    THEN mcp_tools_call_start(body)
    ELSE IF Get(body, "method", JNull) = JStr(<<"initialize">>)
    THEN Respond(JSONResponse(
             JsonRpcResult(Get(body, "id", JNull),
                           JObj("protocolVersion" :> JStr(<<"2024-11-05">>)
                                @@ "capabilities" :> JObj("tools" :> JObj(NoMembers))
                                @@ "serverInfo" :> JObj("name" :> JStr(<<"dora-mcp">>)
                                                        @@ "version" :> JStr(<<"1.0.0">>)))),
             200))
    ELSE Respond(JSONResponse(
             JsonRpcError(Get(body, "id", JNull), -32601,
                          <<"Method not found: ">> \o PyStr(Get(body, "method", JNull))),
             200))

\* the tools/call branch as it would be if a failed search were answered with
\* the JSON-RPC error -32603
mcp_post_finish_error_on_failure(body, reply) ==
    LET arguments == Get(Get(body, "params", JObj(NoMembers)), "arguments", JObj(NoMembers))
        result == call_tool_finish(Get(arguments, "search_string", JNull), reply)
    IN  IF reply.kind # "json"
        THEN JSONResponse(JsonRpcError(Get(body, "id", JNull), -32603, ReplyMessage(reply)), 500)
        ELSE JSONResponse(
                 JsonRpcResult(Get(body, "id", JNull), JObj("content" :> result.body)),
                 200)

\* the tools/call branch as it would be if it answered without the id
mcp_post_finish_without_id(body, reply) ==
    LET arguments == Get(Get(body, "params", JObj(NoMembers)), "arguments", JObj(NoMembers))
        result == call_tool_finish(Get(arguments, "search_string", JNull), reply)
    IN  JSONResponse(JsonRpcResult(JNull, JObj("content" :> result.body)), 200)

\* the tools/call branch, lines 694-709, from the search on: call_tool
\* catches a failed search itself, so a result is answered either way
mcp_post_finish(body, reply) ==
    LET arguments == Get(Get(body, "params", JObj(NoMembers)), "arguments", JObj(NoMembers))
        result == call_tool_finish(Get(arguments, "search_string", JNull), reply)
    IN  JSONResponse(
            JsonRpcResult(Get(body, "id", JNull), JObj("content" :> result.body)),
            200)

(***************************************************************************)
(* Requests: the inputs of the server run.                                 *)
(***************************************************************************)
NoRequest == [surface |-> "none", name |-> JNull, payload |-> JNull]

\* the search terms of the server run
ServerTerms == {<<"a">>, <<"a", " ", "b">>}

\* what a request may carry as search_string: nothing, null, "", 0, a term
SearchStringMembers ==
    {Absent, JNull, JStr(<<>>), JNum(0)} \cup {JStr(T) : T \in ServerTerms}

ArgumentObjects == {JObj(Member("search_string", v)) : v \in SearchStringMembers}

ToolNames == {JStr(<<"search_publications">>), JStr(<<"nonexistent_tool">>)}

\* call_tool(name, arguments); arguments may also be None
CallToolRequests ==
    {[surface |-> "call_tool", name |-> n, payload |-> a] :
        n \in ToolNames, a \in ArgumentObjects \cup {JNull}}

\* bodies of POST /api/search and POST /connector: not JSON, JSON that is no
\* object, and objects
RestBodies == {NotJson, JArr(<<>>), JNull} \cup ArgumentObjects

\* bodies of POST /mcp
RpcIds == {Absent, JNum(1)}
RpcParams ==
    {Absent, JNull}
    \cup {JObj(Member("name", n) @@ Member("arguments", a)) :
            n \in ToolNames \cup {Absent}, a \in ArgumentObjects \cup {Absent, JNull}}
RpcMethods ==
    {Absent, JStr(<<"initialize">>), JStr(<<"tools/list">>), JStr(<<"ping">>)}

McpBodies ==
    {NotJson, JArr(<<>>), JNull}
    \cup {JObj(Member("id", i) @@ Member("method", m)) : i \in RpcIds, m \in RpcMethods}
    \cup {JObj(Member("id", i) @@ "method" :> JStr(<<"tools/call">>) @@ Member("params", p)) :
            i \in RpcIds, p \in RpcParams}

(***************************************************************************)
(* The DoraClient variant of the server, src/dora_mcp/server.py, and the   *)
(* URL builder of src/validate_urls.py.                                    *)
(***************************************************************************)
client_DORA_BASE_URL == <<"https://www.dora.lib4ri.ch/empa/islandora/search/json_cit_a">>

DefaultQuery == <<"*", ":", "*">>

\* f"{base_url}/{encoded_query}" with encoded_query = quote(query_text, safe=":")
search_url(base_url, query_text) == base_url \o <<"/">> \o QuoteWith(query_text, {":"})

\* params[f"f[{i}]"] = filter_str for i, filter_str in enumerate(filters)
filter_params(filters) ==
    IF Falsy(filters) THEN <<>>
    ELSE [i \in 1..Len(filters.items) |->
            [key |-> <<"f[">> \o DecimalText(i - 1) \o <<"]">>, value |-> filters.items[i].s]]

\* validate_urls.build_search_url: the filters appended as "?f[0]=...&f[1]=..."
build_search_url(base_url, query_text, filters) ==
    IF Falsy(filters) THEN search_url(base_url, query_text)
    ELSE search_url(base_url, query_text) \o <<"?">>
         \o Join(<<"&">>, [i \in 1..Len(filters.items) |->
                              filter_params(filters)[i].key \o <<"=">>
                              \o filter_params(filters)[i].value])

\* DoraClient.search_publications as it would be if it always sent the
\* filter of the year 2018
client_get_fixed_year(query_text, filters) ==
    [url |-> search_url(client_DORA_BASE_URL, query_text),
     params |-> <<[key |-> <<"f[", "0", "]">>,
                   value |-> <<"mods_originInfo_encoding_w3cdtf_keyDate_yes_dateIssued_dt:", "[">>
                             \o <<"2", "0", "1", "8", "-", "0", "1", "-", "0", "1",
                                  "T", "0", "0", ":", "0", "0", ":", "0", "0", "Z">>
                             \o <<" TO ">>
                             \o <<"2", "0", "1", "8", "-", "1", "2", "-", "3", "1",
                                  "T", "2", "3", ":", "5", "9", ":", "5", "9", "Z">>
                             \o <<"]">>]>>]

\* DoraClient.search_publications, lines 49-61: self.client.get(url, params=params)
client_get(query_text, filters) ==
    [url |-> search_url(client_DORA_BASE_URL, query_text), params |-> filter_params(filters)]

\* "[{start} TO {end}]" on the date field
date_filter(start, end) ==
    JStr(<<"mods_originInfo_encoding_w3cdtf_keyDate_yes_dateIssued_dt:", "[">>
         \o start \o <<" TO ">> \o end \o <<"]">>)

StartOfDay == <<"T", "0", "0", ":", "0", "0", ":", "0", "0", "Z">>
EndOfDay == <<"T", "2", "3", ":", "5", "9", ":", "5", "9", "Z">>
FirstOfJanuary == <<"-", "0", "1", "-", "0", "1">>
LastOfDecember == <<"-", "1", "2", "-", "3", "1">>

\* DoraClient.search_by_year: the request it sends
search_by_year(year) ==
    client_get(DefaultQuery,
               JArr(<<date_filter(PyStr(year) \o FirstOfJanuary \o StartOfDay,
                                  PyStr(year) \o LastOfDecember \o EndOfDay)>>))

\* DoraClient.search_by_date_range: the request it sends
search_by_date_range(start_date, end_date) ==
    client_get(DefaultQuery,
               JArr(<<date_filter(PyStr(start_date) \o StartOfDay,
                                  PyStr(end_date) \o EndOfDay)>>))

\* list_tools of the variant as it would be without search_by_date_range
client_list_tools_two ==
    << [name |-> <<"search_publications">>, required |-> <<>>],
       [name |-> <<"search_by_year">>, required |-> <<"year">>] >>

\* list_tools of the variant: the three tools by name and required arguments
client_list_tools ==
    << [name |-> <<"search_publications">>, required |-> <<>>],
       [name |-> <<"search_by_year">>, required |-> <<"year">>],
       [name |-> <<"search_by_date_range">>, required |-> <<"start_date", "end_date">>] >>

\* str(KeyError(key))
KeyErrorMessage(key) == <<"'", key, "'">>

\* what call_tool returns from its except clause
ErrorText(msg) == Return(JArr(<<TextContent(<<"Error: ">> \o msg)>>))

\* call_tool of the variant as it would be without the try around it
client_call_tool_start_uncaught(name, arguments) ==
    IF name = JStr(<<"search_publications">>)
    THEN IF arguments.t # "obj"
         THEN Respond(Raise("AttributeError", NoGetMessage(arguments)))
         ELSE IF Get(arguments, "query", JStr(DefaultQuery)).t # "str"
         THEN Respond(Raise("TypeError", <<"quote_from_bytes() expected bytes">>))
         ELSE Send(<<client_get(Get(arguments, "query", JStr(DefaultQuery)).s,
                                Get(arguments, "filters", JNull))>>)
    ELSE IF name = JStr(<<"search_by_year">>)
    THEN IF arguments.t # "obj"
         THEN Respond(Raise("TypeError", <<"'", TypeName(arguments), "' object is not subscriptable">>))
         ELSE IF "year" \notin DOMAIN arguments.o
         THEN Respond(Raise("KeyError", KeyErrorMessage("year")))
         ELSE Send(<<search_by_year(arguments.o["year"])>>)
    ELSE IF name = JStr(<<"search_by_date_range">>)
    THEN IF arguments.t # "obj"
         THEN Respond(Raise("TypeError", <<"'", TypeName(arguments), "' object is not subscriptable">>))
         ELSE IF "start_date" \notin DOMAIN arguments.o
         THEN Respond(Raise("KeyError", KeyErrorMessage("start_date")))
         ELSE IF "end_date" \notin DOMAIN arguments.o
         THEN Respond(Raise("KeyError", KeyErrorMessage("end_date")))
         ELSE Send(<<search_by_date_range(arguments.o["start_date"], arguments.o["end_date"])>>)
    ELSE Respond(Raise("ValueError", <<"Unknown tool: ">> \o PyStr(name)))

\* call_tool of the variant, lines 185-228, up to the outbound GET: every
\* exception raised on the way is caught and returned as "Error: ..."
client_call_tool_start(name, arguments) ==
    IF name = JStr(<<"search_publications">>)
    THEN IF arguments.t # "obj"
         THEN Respond(ErrorText(NoGetMessage(arguments)))
         ELSE IF Get(arguments, "query", JStr(DefaultQuery)).t # "str"
         THEN Respond(ErrorText(<<"quote_from_bytes() expected bytes">>))
         ELSE Send(<<client_get(Get(arguments, "query", JStr(DefaultQuery)).s,
                                Get(arguments, "filters", JNull))>>)
    ELSE IF name = JStr(<<"search_by_year">>)
    THEN IF arguments.t # "obj"
         THEN Respond(ErrorText(<<"'", TypeName(arguments), "' object is not subscriptable">>))
         ELSE IF "year" \notin DOMAIN arguments.o
         THEN Respond(ErrorText(KeyErrorMessage("year")))
         ELSE Send(<<search_by_year(arguments.o["year"])>>)
    ELSE IF name = JStr(<<"search_by_date_range">>)
    THEN IF arguments.t # "obj"
         THEN Respond(ErrorText(<<"'", TypeName(arguments), "' object is not subscriptable">>))
         ELSE IF "start_date" \notin DOMAIN arguments.o
         THEN Respond(ErrorText(KeyErrorMessage("start_date")))
         ELSE IF "end_date" \notin DOMAIN arguments.o
         THEN Respond(ErrorText(KeyErrorMessage("end_date")))
         ELSE Send(<<search_by_date_range(arguments.o["start_date"], arguments.o["end_date"])>>)
    ELSE Respond(ErrorText(<<"Unknown tool: ">> \o PyStr(name)))

\* the first line of the text a tool answers with
ResultHeading(name, arguments) ==
    CASE name = JStr(<<"search_publications">>) -> <<"Search results:\n">>
      [] name = JStr(<<"search_by_year">>) ->
            <<"Publications from ">> \o PyStr(arguments.o["year"]) \o <<":\n">>
      [] name = JStr(<<"search_by_date_range">>) ->
            <<"Publications from ">> \o PyStr(arguments.o["start_date"]) \o <<" to ">>
            \o PyStr(arguments.o["end_date"]) \o <<":\n">>

\* call_tool of the variant from the end of the GET on: DoraClient raises a
\* failure again (lines 64-69) and call_tool catches it
client_call_tool_finish(name, arguments, reply) ==
    LET result == search_dora_publications(reply)
    IN  IF result.raised
        THEN ErrorText(result.msg)
        ELSE Return(JArr(<<TextContent(ResultHeading(name, arguments) \o PyStr(result.value))>>))

\* the tool calls the variant is given
ClientToolNames ==
    {JStr(<<"search_publications">>), JStr(<<"search_by_year">>),
     JStr(<<"search_by_date_range">>), JStr(<<"nonexistent_tool">>)}

Filter2018 ==
    date_filter(DecimalText(2018) \o FirstOfJanuary \o StartOfDay,
                DecimalText(2018) \o LastOfDecember \o EndOfDay)

ClientArguments ==
    {JNull}
    \cup {JObj(Member("query", q) @@ Member("filters", f)) :
            q \in {Absent, JNull, JStr(<<"a", " ", "*">>)},
            f \in {Absent, JArr(<<>>), JArr(<<Filter2018, JStr(<<"x">>)>>)}}
    \cup {JObj("year" :> y) : y \in {JNum(2018), JStr(<<"5">>)}}
    \cup {JObj(Member("start_date", a) @@ Member("end_date", b)) :
            a \in {Absent, JStr(DecimalText(2018) \o FirstOfJanuary)},
            b \in {Absent, JStr(DecimalText(2018) \o LastOfDecember)}}

ClientRequests ==
    {[surface |-> "client_call_tool", name |-> n, payload |-> a] :
        n \in ClientToolNames, a \in ClientArguments}

ClientListToolsRequest == [surface |-> "client_list_tools", name |-> JNull, payload |-> JNull]

\* the calls of build_search_url
UrlRequests ==
    {[surface |-> "build_search_url", name |-> JNull,
      payload |-> JObj("query" :> JStr(q) @@ "filters" :> f)] :
        q \in {DefaultQuery, <<"a", " ", "*">>},
        f \in {JNull, JArr(<<>>), JArr(<<Filter2018>>), JArr(<<Filter2018, JStr(<<"x">>)>>)}}

ClientStarted == [req \in ClientRequests |-> client_call_tool_start(req.name, req.payload)]
ClientSearching == {req \in ClientRequests : ClientStarted[req].step = "get"}
ClientFinished ==
    [req \in ClientSearching |->
        [reply \in Replies |-> client_call_tool_finish(req.name, req.payload, reply)]]

\* main of the variant has ended: app.run returned (exc = "") or raised
MainExited(exc) == [transport |-> "exited", host |-> <<>>, port |-> 0, exc |-> exc]

(***************************************************************************)
(* main: the transport chosen from the environment.                        *)
(***************************************************************************)
\* str.lower() of the letters the model's texts hold
LowerChar(c) ==
    CASE c = "H" -> "h"
      [] c = "T" -> "t"
      [] c = "P" -> "p"
      [] c = "S" -> "s"
      [] c = "D" -> "d"
      [] c = "I" -> "i"
      [] c = "O" -> "o"
      [] OTHER -> c

Lower(s) == [i \in 1..Len(s) |-> LowerChar(s[i])]

\* os.getenv(key, default): environ[key] is Absent or JStr(text)
getenv(env, key, default) == IF env[key] = Absent THEN default ELSE env[key].s

\* s.strip() of a text whose whitespace is spaces
RECURSIVE Strip(_)
Strip(s) ==
    IF s = <<>> THEN s
    ELSE IF Head(s) = " " THEN Strip(Tail(s))
    ELSE IF s[Len(s)] = " " THEN Strip(SubSeq(s, 1, Len(s) - 1))
    ELSE s

\* int(s) accepts s: decimal digits, after an optional sign, spaces around
IsIntText(s) ==
    LET t == Strip(s)
        d == IF t # <<>> /\ Head(t) \in {"+", "-"} THEN Tail(t) ELSE t
    IN  d # <<>> /\ \A i \in 1..Len(d) : d[i] \in Digits

DigitValue(c) == CHOOSE n \in 0..9 : DecimalDigit[n + 1] = c

RECURSIVE DigitsValue(_)
DigitsValue(d) ==
    IF d = <<>> THEN 0
    ELSE 10 * DigitsValue(SubSeq(d, 1, Len(d) - 1)) + DigitValue(d[Len(d)])

\* int(s) of a text that int accepts
IntOf(s) ==
    LET t == Strip(s)
    IN  IF Head(t) = "-" THEN 0 - DigitsValue(Tail(t))
        ELSE IF Head(t) = "+" THEN DigitsValue(Tail(t))
        ELSE DigitsValue(t)

NotStarted == [transport |-> "none", host |-> <<>>, port |-> 0, exc |-> ""]
ServeHttp(host, port) == [transport |-> "http", host |-> host, port |-> port, exc |-> ""]
ServeStdio == [transport |-> "stdio", host |-> <<>>, port |-> 0, exc |-> ""]
MainRaised(exc) == [transport |-> "none", host |-> <<>>, port |-> 0, exc |-> exc]

\* main as it would be if it compared MCP_TRANSPORT as it is written
main_case_sensitive(env) ==
    IF getenv(env, "MCP_TRANSPORT", <<"s", "t", "d", "i", "o">>) = <<"h", "t", "t", "p">>
    THEN IF IsIntText(getenv(env, "MCP_PORT", <<"8", "0", "0", "0">>))
         THEN ServeHttp(getenv(env, "MCP_HOST", <<"0.0.0.0">>),
                        IntOf(getenv(env, "MCP_PORT", <<"8", "0", "0", "0">>)))
         ELSE MainRaised("ValueError")
    ELSE ServeStdio

\* main, lines 151-156 and 779-787: the transport it serves, or the
\* ValueError of int() on an MCP_PORT that is no integer
main(env) ==
    IF Lower(getenv(env, "MCP_TRANSPORT", <<"s", "t", "d", "i", "o">>)) = <<"h", "t", "t", "p">>
    THEN IF IsIntText(getenv(env, "MCP_PORT", <<"8", "0", "0", "0">>))
         THEN ServeHttp(getenv(env, "MCP_HOST", <<"0.0.0.0">>),
                        IntOf(getenv(env, "MCP_PORT", <<"8", "0", "0", "0">>)))
         ELSE MainRaised("ValueError")
    ELSE ServeStdio

\* the environments of the model: each variable unset, or set to a text
TransportTexts ==
    {<<"h", "t", "t", "p">>, <<"H", "T", "T", "P">>, <<"H", "t", "t", "p">>,
     <<"s", "t", "d", "i", "o">>, <<"S", "T", "D", "I", "O">>, <<"s", "s", "e">>,
     <<"h", "t", "t", "p", "s">>, <<" ", "h", "t", "t", "p">>, <<>>}
HostTexts == {<<"0.0.0.0">>, <<"127.0.0.1">>, <<"localhost">>}
PortTexts ==
    {<<"8", "0", "0", "0">>, <<"8", "0", "8", "0">>, <<"8", "0">>, <<" ", "9", "0">>,
     <<"h", "t", "t", "p">>, <<>>}

Environments ==
    [MCP_TRANSPORT : {Absent} \cup {JStr(t) : t \in TransportTexts},
     MCP_HOST : {Absent} \cup {JStr(t) : t \in HostTexts},
     MCP_PORT : {Absent} \cup {JStr(t) : t \in PortTexts}]

\* the environment of the server run: HTTP mode on the default address
HttpEnvironment ==
    [MCP_TRANSPORT |-> JStr(<<"h", "t", "t", "p">>), MCP_HOST |-> Absent, MCP_PORT |-> Absent]

(***************************************************************************)
(* The server run.  A handler runs to its outbound GET in one step; the    *)
(* GET's end is a second step.  `returned` keeps the exchange that         *)
(* finished last.                                                          *)
(***************************************************************************)
NoExchange == [req |-> NoRequest, sent |-> <<>>, reply |-> NoReply, out |-> NoOutcome]

ListToolsRequest == [surface |-> "list_tools", name |-> JNull, payload |-> JNull]
SearchApiRequests ==
    {[surface |-> "api_search", name |-> JNull, payload |-> body] : body \in RestBodies}
ConnectorRequests ==
    {[surface |-> "connector", name |-> JNull, payload |-> body] : body \in RestBodies}
McpPostRequests ==
    {[surface |-> "mcp_post", name |-> JNull, payload |-> body] : body \in McpBodies}
McpGetRequest == [surface |-> "mcp_get", name |-> JNull, payload |-> JNull]
ToolsRequest == [surface |-> "tools", name |-> JNull, payload |-> JNull]
HealthRequest == [surface |-> "health", name |-> JNull, payload |-> JNull]
SseRequest == [surface |-> "sse", name |-> JNull, payload |-> JNull]
OpenApiCopilotRequest == [surface |-> "openapi_copilot", name |-> JNull, payload |-> JNull]

Requests ==
    {ListToolsRequest, McpGetRequest, ToolsRequest, HealthRequest, SseRequest,
     OpenApiCopilotRequest}
    \cup CallToolRequests \cup SearchApiRequests \cup ConnectorRequests \cup McpPostRequests

\* the routes of the Starlette application, and the two MCP handlers: the
\* handler of req run up to its outbound GET
Start(req) ==
    CASE req.surface = "list_tools" -> Respond(Return(ToolsJson(list_tools)))
      [] req.surface = "call_tool" -> call_tool_start(req.name, req.payload)
      [] req.surface = "api_search" -> search_api_start(req.payload)
      [] req.surface = "connector" -> connector_start(req.payload)
      [] req.surface = "mcp_post" -> mcp_post_start(req.payload)
      [] req.surface = "mcp_get" -> Respond(dispatch("/mcp", "GET", mcp_get))
      [] req.surface = "tools" -> Respond(dispatch("/tools", "GET", tools_endpoint))
      [] req.surface = "health" -> Respond(dispatch("/health", "GET", health_endpoint))
      [] req.surface = "sse" -> Respond(dispatch("/sse", "GET", NoOutcome))
      [] req.surface = "openapi_copilot" ->
            Respond(dispatch("/openapi-copilot.json", "GET", openapi_copilot_endpoint))

\* the handler of req from the end of its GET on
Finish(req, reply) ==
    CASE req.surface = "call_tool" ->
            call_tool_finish(Get(req.payload, "search_string", JNull), reply)
      [] req.surface = "api_search" -> rest_finish(req.payload, reply)
      [] req.surface = "connector" -> rest_finish(req.payload, reply)
      [] req.surface = "mcp_post" -> mcp_post_finish(req.payload, reply)

\* Start and Finish tabulated over the inputs of the run
Started == [req \in Requests |-> Start(req)]
Searching == {req \in Requests : Started[req].step = "get"}
Finished == [req \in Searching |-> [reply \in Replies |-> Finish(req, reply)]]

\* the server takes a new request while fewer than MaxInFlight are waiting
CanAccept == BagCardinality(inflight) < MaxInFlight

\* req arrives: its handler answers at once, or sends its GET and waits
\* a handler as it would be if it answered a search before its GET ended and
\* again after it
Begin_answered_before_get(req) ==
    IF Started[req].step = "respond"
    THEN /\ returned' = [req |-> req, sent |-> <<>>, reply |-> NoReply,
                         out |-> Started[req].out]
         /\ UNCHANGED inflight
    ELSE /\ inflight' = inflight (+) SetToBag({[req |-> req, sent |-> Started[req].gets]})
         /\ returned' = [req |-> req, sent |-> Started[req].gets, reply |-> NoReply,
                         out |-> NoOutcome]

\* a handler runs up to its answer, or up to the await of its outbound GET
Begin(req) ==
    IF Started[req].step = "respond"
    THEN /\ returned' = [req |-> req, sent |-> <<>>, reply |-> NoReply,
                         out |-> Started[req].out]
         /\ UNCHANGED inflight
    ELSE /\ inflight' = inflight (+) SetToBag({[req |-> req, sent |-> Started[req].gets]})
         /\ UNCHANGED returned

ListTools ==
    /\ variant = "server"
    /\ CanAccept
    /\ Begin(ListToolsRequest)
    /\ UNCHANGED <<term, query, environ, running, variant, closes>>

CallTool ==
    /\ variant = "server"
    /\ CanAccept
    /\ \E req \in CallToolRequests : Begin(req)
    /\ UNCHANGED <<term, query, environ, running, variant, closes>>

SearchApi ==
    /\ CanAccept
    /\ \E req \in SearchApiRequests : Begin(req)
    /\ UNCHANGED <<term, query, environ, running, variant, closes>>

Connector ==
    /\ CanAccept
    /\ \E req \in ConnectorRequests : Begin(req)
    /\ UNCHANGED <<term, query, environ, running, variant, closes>>

McpPost ==
    /\ CanAccept
    /\ \E req \in McpPostRequests : Begin(req)
    /\ UNCHANGED <<term, query, environ, running, variant, closes>>

McpGet ==
    /\ CanAccept
    /\ Begin(McpGetRequest)
    /\ UNCHANGED <<term, query, environ, running, variant, closes>>

ToolsGet ==
    /\ CanAccept
    /\ Begin(ToolsRequest)
    /\ UNCHANGED <<term, query, environ, running, variant, closes>>

HealthGet ==
    /\ CanAccept
    /\ Begin(HealthRequest)
    /\ UNCHANGED <<term, query, environ, running, variant, closes>>

SseGet ==
    /\ CanAccept
    /\ Begin(SseRequest)
    /\ UNCHANGED <<term, query, environ, running, variant, closes>>

OpenApiCopilotGet ==
    /\ CanAccept
    /\ Begin(OpenApiCopilotRequest)
    /\ UNCHANGED <<term, query, environ, running, variant, closes>>

\* the outbound GET of a waiting request ends; its handler answers
UpstreamReply ==
    \E waiting \in BagToSet(inflight), reply \in Replies :
        /\ variant = "server"
        /\ returned' = [req |-> waiting.req, sent |-> waiting.sent,
                        reply |-> reply, out |-> Finished[waiting.req][reply]]
        /\ inflight' = inflight (-) SetToBag({waiting})
        /\ UNCHANGED <<term, query, environ, running, variant, closes>>

Init ==
    /\ term = <<>>
    /\ query = <<>>
    /\ inflight = EmptyBag
    /\ returned = NoExchange
    /\ environ = HttpEnvironment
    /\ running = main(HttpEnvironment)
    /\ variant = "server"
    /\ closes = 0

Next ==
    \/ ListTools
    \/ CallTool
    \/ SearchApi
    \/ Connector
    \/ McpPost
    \/ McpGet
    \/ ToolsGet
    \/ HealthGet
    \/ SseGet
    \/ OpenApiCopilotGet
    \/ UpstreamReply

Spec == Init /\ [][Next]_vars

\* the outbound GET of the waiting request req ends (reply, error or timeout)
\* and the event loop resumes its handler
GetCompletes(req) ==
    \E waiting \in BagToSet(inflight), reply \in Replies :
        /\ waiting.req = req
        /\ variant = "server"
        /\ returned' = [req |-> waiting.req, sent |-> waiting.sent,
                        reply |-> reply, out |-> Finished[waiting.req][reply]]
        /\ inflight' = inflight (-) SetToBag({waiting})
        /\ UNCHANGED <<term, query, environ, running, variant, closes>>

\* the server run in which every outbound GET ends: httpx ends each GET with a
\* reply, an error or the timeout, and the event loop resumes the handler
SpecLive == Init /\ [][Next]_vars /\ \A req \in Searching : WF_vars(GetCompletes(req))

(***************************************************************************)
(* The query-builder run: build_search_query applied to one term.          *)
(***************************************************************************)
InitQuery ==
    /\ term \in Terms
    /\ query = <<>>
    /\ inflight = EmptyBag
    /\ returned = NoExchange
    /\ environ = HttpEnvironment
    /\ running = NotStarted
    /\ variant = "server"
    /\ closes = 0

BuildQuery ==
    /\ query = <<>>
    /\ query' = build_search_query(term)
    /\ UNCHANGED <<term, inflight, returned, environ, running, variant, closes>>

NextQuery == BuildQuery

SpecQuery == InitQuery /\ [][NextQuery]_vars

(***************************************************************************)
(* The start of the process: main run once in an environment.              *)
(***************************************************************************)
InitMain ==
    /\ term = <<>>
    /\ query = <<>>
    /\ inflight = EmptyBag
    /\ returned = NoExchange
    /\ environ \in Environments
    /\ running = NotStarted
    /\ variant = "server"
    /\ closes = 0

Main ==
    /\ running = NotStarted
    /\ running' = main(environ)
    /\ UNCHANGED <<term, query, inflight, returned, environ, variant, closes>>

NextMain == Main

SpecMain == InitMain /\ [][NextMain]_vars

(***************************************************************************)
(* The stdio run: one of the programs (the server in stdio mode, the       *)
(* DoraClient variant, or validate_urls) serving tool calls.               *)
(***************************************************************************)
InitStdio ==
    /\ term = <<>>
    /\ query = <<>>
    /\ inflight = EmptyBag
    /\ returned = NoExchange
    /\ environ = [MCP_TRANSPORT |-> Absent, MCP_HOST |-> Absent, MCP_PORT |-> Absent]
    /\ running = ServeStdio
    /\ variant \in {"server", "client", "validate_urls"}
    /\ closes = 0

ClientListTools ==
    /\ variant = "client"
    /\ running = ServeStdio
    /\ CanAccept
    /\ returned' = [req |-> ClientListToolsRequest, sent |-> <<>>, reply |-> NoReply,
                    out |-> Return(JArr([i \in 1..Len(client_list_tools) |->
                                            JStr(client_list_tools[i].name)]))]
    /\ UNCHANGED <<term, query, inflight, environ, running, variant, closes>>

ClientCallTool ==
    /\ variant = "client"
    /\ running = ServeStdio
    /\ CanAccept
    /\ \E req \in ClientRequests :
          IF ClientStarted[req].step = "respond"
          THEN /\ returned' = [req |-> req, sent |-> <<>>, reply |-> NoReply,
                               out |-> ClientStarted[req].out]
               /\ UNCHANGED inflight
          ELSE /\ inflight' = inflight (+) SetToBag({[req |-> req,
                                                      sent |-> ClientStarted[req].gets]})
               /\ UNCHANGED returned
    /\ UNCHANGED <<term, query, environ, running, variant, closes>>

\* the GET of a waiting tool call ends
ClientReply ==
    /\ variant = "client"
    /\ running = ServeStdio
    /\ \E waiting \in BagToSet(inflight), reply \in Replies :
          /\ returned' = [req |-> waiting.req, sent |-> waiting.sent, reply |-> reply,
                          out |-> ClientFinished[waiting.req][reply]]
          /\ inflight' = inflight (-) SetToBag({waiting})
    /\ UNCHANGED <<term, query, environ, running, variant, closes>>

\* main of the variant, lines 234-242: app.run returns, and the finally
\* clause closes the client; the calls still waiting end with the run
AppRunReturns ==
    /\ variant = "client"
    /\ running = ServeStdio
    /\ running' = MainExited("")
    /\ closes' = closes + 1
    /\ inflight' = EmptyBag
    /\ UNCHANGED <<term, query, returned, environ, variant>>

\* app.run (or stdio_server) raises, and the finally clause closes the client
AppRunRaises ==
    /\ variant = "client"
    /\ running = ServeStdio
    /\ running' = MainExited("Exception")
    /\ closes' = closes + 1
    /\ inflight' = EmptyBag
    /\ UNCHANGED <<term, query, returned, environ, variant>>

\* validate_urls.main: build_search_url applied
BuildSearchUrl ==
    /\ variant = "validate_urls"
    /\ \E req \in UrlRequests :
          returned' = [req |-> req, sent |-> <<>>, reply |-> NoReply,
                       out |-> Return(JStr(build_search_url(client_DORA_BASE_URL,
                                                            req.payload.o["query"].s,
                                                            req.payload.o["filters"])))]
    /\ UNCHANGED <<term, query, inflight, environ, running, variant, closes>>

NextStdio ==
    \/ ListTools
    \/ CallTool
    \/ UpstreamReply
    \/ ClientListTools
    \/ ClientCallTool
    \/ ClientReply
    \/ AppRunReturns
    \/ AppRunRaises
    \/ BuildSearchUrl

SpecStdio == InitStdio /\ [][NextStdio]_vars

(***************************************************************************)
(* Properties of the query builder (checked under SpecQuery).              *)
(***************************************************************************)
FieldMarkers == <<F_title, F_abstract, F_creator, F_authors, F_contributor, F_type,
                  F_catchall>>

\* an "OR" stands between an occurrence of marker a and a later one of marker b
OrBetween(q, a, b) ==
    \E i \in Occurrences(q, a), o \in Occurrences(q, <<"O", "R">>), j \in Occurrences(q, b) :
        i + Len(a) <= o /\ o + 2 <= j

\* C1: for every non-empty search term, the query build_search_query returns
\* contains each of the seven field markers, and the clauses of consecutive
\* fields are joined by the literal OR.
C1_QueryHasSevenMarkersJoinedByOr ==
    (query # <<>> /\ term # <<>>) =>
        /\ \A k \in 1..7 : Contains(query, FieldMarkers[k])
        /\ \A k \in 1..6 : OrBetween(query, FieldMarkers[k], FieldMarkers[k + 1])

C1_Witness ==
    /\ term = T_testquery
    /\ query # <<>>
    /\ Contains(query, F_catchall)

\* C2: for every search term T, the query is the seven clauses
\* field:(T)^weight, each percent-encoded on its own, in the order title,
\* abstract, creator, original-author-list, contributor, type, catch-all with
\* the weights 5, 2, 2, 2, 1, 1, 1, and "%20OR%20" between consecutive ones.
C2_QueryIsSevenEncodedClauses ==
    query # <<>> =>
        query =
            Quote(F_title \o <<":", "(">> \o term \o <<")", "^", "5">>)
            \o <<"%", "2", "0", "O", "R", "%", "2", "0">>
            \o Quote(F_abstract \o <<":", "(">> \o term \o <<")", "^", "2">>)
            \o <<"%", "2", "0", "O", "R", "%", "2", "0">>
            \o Quote(F_creator \o <<":", "(">> \o term \o <<")", "^", "2">>)
            \o <<"%", "2", "0", "O", "R", "%", "2", "0">>
            \o Quote(F_authors \o <<":", "(">> \o term \o <<")", "^", "2">>)
            \o <<"%", "2", "0", "O", "R", "%", "2", "0">>
            \o Quote(F_contributor \o <<":", "(">> \o term \o <<")", "^", "1">>)
            \o <<"%", "2", "0", "O", "R", "%", "2", "0">>
            \o Quote(F_type \o <<":", "(">> \o term \o <<")", "^", "1">>)
            \o <<"%", "2", "0", "O", "R", "%", "2", "0">>
            \o Quote(F_catchall \o <<":", "(">> \o term \o <<")", "^", "1">>)

C2_Witness ==
    /\ term = T_manfred
    /\ query # <<>>
    /\ Contains(query, <<"m", "a", "n", "f", "r", "e", "d", "%", "2", "0", "h", "e", "u",
                         "b", "e", "r", "g", "e", "r", "%", "2", "9", "%", "5", "E", "5">>)

\* C3: percent-decoding the query gives back, for every term T (also one with
\* "%", spaces, colons, parentheses, "^" or the word OR), the seven clauses
\* field:(T)^weight with T unchanged in each, joined by " OR ".
C3_DecodedQueryHoldsTermUnchanged ==
    query # <<>> =>
        Unquote(query) =
            F_title \o <<":", "(">> \o term \o <<")", "^", "5">>
            \o <<" ", "O", "R", " ">>
            \o F_abstract \o <<":", "(">> \o term \o <<")", "^", "2">>
            \o <<" ", "O", "R", " ">>
            \o F_creator \o <<":", "(">> \o term \o <<")", "^", "2">>
            \o <<" ", "O", "R", " ">>
            \o F_authors \o <<":", "(">> \o term \o <<")", "^", "2">>
            \o <<" ", "O", "R", " ">>
            \o F_contributor \o <<":", "(">> \o term \o <<")", "^", "1">>
            \o <<" ", "O", "R", " ">>
            \o F_type \o <<":", "(">> \o term \o <<")", "^", "1">>
            \o <<" ", "O", "R", " ">>
            \o F_catchall \o <<":", "(">> \o term \o <<")", "^", "1">>

C3_Witness ==
    /\ term = T_sep
    /\ query # <<>>
    /\ Contains(Unquote(query), <<"(">> \o T_sep \o <<")">>)
    /\ ~Contains(query, <<"(">>)

(***************************************************************************)
(* Properties of the server run (checked under Spec).                      *)
(***************************************************************************)
SearchPublications == JStr(<<"search_publications">>)

\* req asks a surface for a search: call_tool with the tool's name, a REST
\* POST with an object body, or tools/call naming the tool on /mcp
IsSearchCall(req) ==
    \/ req.surface = "call_tool" /\ req.name = SearchPublications /\ req.payload.t = "obj"
    \/ req.surface \in {"api_search", "connector"} /\ req.payload.t = "obj"
    \/ /\ req.surface = "mcp_post"
       /\ req.payload.t = "obj"
       /\ Get(req.payload, "method", JNull) = JStr(<<"tools/call">>)
       /\ Get(req.payload, "params", JObj(NoMembers)).t = "obj"
       /\ Get(Get(req.payload, "params", JObj(NoMembers)), "name", JNull) = SearchPublications
       /\ Get(Get(req.payload, "params", JObj(NoMembers)), "arguments", JObj(NoMembers)).t = "obj"

\* the object that carries search_string
ArgumentsOf(req) ==
    IF req.surface = "mcp_post"
    THEN Get(Get(req.payload, "params", JObj(NoMembers)), "arguments", JObj(NoMembers))
    ELSE req.payload

\* search_string is absent, null or empty
MissingTerm(req) ==
    /\ IsSearchCall(req)
    /\ \/ "search_string" \notin DOMAIN ArgumentsOf(req).o
       \/ ArgumentsOf(req).o["search_string"] = JNull
       \/ ArgumentsOf(req).o["search_string"] = JStr(<<>>)

\* search_string is a non-empty string
ValidSearch(req) ==
    /\ IsSearchCall(req)
    /\ "search_string" \in DOMAIN ArgumentsOf(req).o
    /\ ArgumentsOf(req).o["search_string"].t = "str"
    /\ ArgumentsOf(req).o["search_string"].s # <<>>

\* the handler ended with an error: an exception, or an answer of status 400
\* or 500 that carries an "error" member
IsError(out) ==
    \/ out.kind = "raise"
    \/ /\ out.kind = "http"
       /\ out.status \in {400, 500}
       /\ out.body.t = "obj"
       /\ "error" \in DOMAIN out.body.o

FailedReplies == {r \in Replies : r.kind # "json"}

\* C4: on every inbound surface, a request whose search_string is absent, null
\* or empty is rejected with an error and no outbound GET is made for it: none
\* is ever waiting for a GET, and it finishes with an error and nothing sent.
C4_MissingTermRejectedBeforeAnyGet ==
    /\ \A w \in BagToSet(inflight) : ~MissingTerm(w.req)
    /\ MissingTerm(returned.req) =>
          /\ returned.sent = <<>>
          /\ returned.reply = NoReply
          /\ IsError(returned.out)

C4_Witness ==
    /\ returned.req.surface = "mcp_post"
    /\ MissingTerm(returned.req)
    /\ "search_string" \in DOMAIN ArgumentsOf(returned.req).o
    /\ returned.out.kind = "http"
    /\ returned.out.status = 500

\* C5: when the outbound GET of a search fails (connection error, timeout,
\* HTTP error status, body that is not JSON), call_tool does not raise: it
\* returns a non-empty list whose first TextContent starts with
\* "Error searching DORA: ".
C5_CallToolReturnsErrorTextOnFailedGet ==
    (returned.req.surface = "call_tool" /\ returned.reply \in FailedReplies) =>
        /\ returned.out.kind = "return"
        /\ returned.out.body.t = "arr"
        /\ Len(returned.out.body.items) >= 1
        /\ returned.out.body.items[1].o["type"] = JStr(<<"text">>)
        /\ returned.out.body.items[1].o["text"].s[1] = "Error searching DORA: "
        /\ Len(returned.out.body.items[1].o["text"].s) > 1

C5_Witness ==
    /\ returned.req.surface = "call_tool"
    /\ returned.reply.kind = "timeout"
    /\ returned.out.kind = "return"

\* sent is one GET, addressed to the search endpoint
SentOneSearchGet(sent) ==
    /\ Len(sent) = 1
    /\ SubSeq(sent[1].url, 1, 3)
          = <<"https://www.dora.lib4ri.ch/empa", "/islandora/search/json_cit_a", "/">>

\* C6: every valid search request causes exactly one outbound GET to the fixed
\* search endpoint, sent after validation and before the answer, and no
\* request ever causes more than one: a waiting request is valid and has sent
\* one GET, a finished valid one has sent one GET and was answered after it
\* ended, and no other request has sent any.
C6_ExactlyOneGetPerValidSearch ==
    /\ \A w \in BagToSet(inflight) : ValidSearch(w.req) /\ SentOneSearchGet(w.sent)
    /\ Len(returned.sent) <= 1
    /\ ValidSearch(returned.req) => SentOneSearchGet(returned.sent) /\ returned.reply # NoReply
    /\ returned.sent # <<>> => ValidSearch(returned.req)

C6_Witness ==
    /\ ValidSearch(returned.req)
    /\ returned.reply \in FailedReplies
    /\ Len(returned.sent) = 1
    /\ \E w \in BagToSet(inflight) : w.req.surface # returned.req.surface

\* the surfaces served by the Starlette routes
HttpSurfaces == {"api_search", "connector", "mcp_post", "mcp_get", "tools", "health"}

\* C7: every failure path of every handler ends with a response returned to
\* the caller; no failure leaves a handler as an unhandled exception.  Stated
\* for the HTTP route handlers: each finishes with an HTTP response.
C7_EveryHttpFailureIsAnswered ==
    returned.req.surface \in HttpSurfaces => returned.out.kind = "http"

\* C8: list_tools returns exactly one tool, named search_publications, with a
\* non-empty description that mentions DORA, an input schema with a
\* search_string property, and the required list ["search_string"].
C8_ListToolsReturnsTheOneSearchTool ==
    returned.req.surface = "list_tools" =>
        /\ returned.out.kind = "return"
        /\ Len(returned.out.body.items) = 1
        /\ LET tool == returned.out.body.items[1].o
           IN  /\ tool["name"] = JStr(<<"search_publications">>)
               /\ tool["description"].s # <<>>
               /\ \E k \in 1..Len(tool["description"].s) : tool["description"].s[k] = "DORA"
               /\ "search_string" \in DOMAIN tool["inputSchema"].o["properties"].o
               /\ "required" \in DOMAIN tool["inputSchema"].o
               /\ tool["inputSchema"].o["required"] = JArr(<<JStr(<<"search_string">>)>>)

C8_Witness ==
    /\ returned.req.surface = "list_tools"
    /\ returned.out.kind = "return"
    /\ returned.out.body.items # <<>>

\* C9: call_tool with any tool name other than search_publications raises
\* ValueError "Unknown tool: <name>" whatever the arguments are, and makes no
\* outbound call.
C9_UnknownToolRaisesValueError ==
    /\ \A w \in BagToSet(inflight) :
          w.req.surface = "call_tool" => w.req.name = SearchPublications
    /\ (returned.req.surface = "call_tool" /\ returned.req.name # SearchPublications) =>
          /\ returned.out = Raise("ValueError", <<"Unknown tool: ">> \o returned.req.name.s)
          /\ returned.sent = <<>>

C9_Witness ==
    /\ returned.req.surface = "call_tool"
    /\ returned.req.name = JStr(<<"nonexistent_tool">>)
    /\ ValidSearch([returned.req EXCEPT !.name = SearchPublications])
    /\ returned.out.kind = "raise"

\* the tool listing an answer carries, and the requests that ask for one
ListedTools(exchange) ==
    CASE exchange.req.surface = "tools" -> exchange.out.body.o["tools"]
      [] exchange.req.surface = "mcp_get" -> exchange.out.body.o["available_tools"]
      [] exchange.req.surface = "mcp_post" -> exchange.out.body.o["result"].o["tools"]

ListsTools(req) ==
    \/ req.surface \in {"tools", "mcp_get"}
    \/ /\ req.surface = "mcp_post"
       /\ req.payload.t = "obj"
       /\ Get(req.payload, "method", JNull) = JStr(<<"tools/list">>)

\* C10: the tool descriptor is static: after any sequence of earlier requests,
\* GET /tools, GET /mcp (available_tools) and JSON-RPC tools/list all answer
\* with the one descriptor (name, description, inputSchema) of list_tools.
C10_ToolDescriptorIsStatic ==
    ListsTools(returned.req) =>
        /\ returned.out.kind = "http"
        /\ returned.out.status = 200
        /\ ListedTools(returned) = ToolsJson(list_tools)
        /\ Len(ListedTools(returned).items) = 1

C10_Witness ==
    /\ returned.req.surface = "mcp_get"
    /\ ListedTools(returned) = ToolsJson(list_tools)
    /\ BagCardinality(inflight) = MaxInFlight

(***************************************************************************)
(* Concurrent requests (checked under Spec).                               *)
(***************************************************************************)
\* the GETs a search request sends: those of its own search_string
OwnGets(req) == search_requests(PyStr(Get(ArgumentsOf(req), "search_string", JNull)))

RestSurfaces == {"api_search", "connector"}

\* C11: with several requests in flight whose GETs end in any order, every
\* answer is computed from its own request and its own upstream reply: a
\* waiting request holds the GET of its own term, a REST answer echoes the
\* search_string of its request and carries the value (or the failure) of its
\* own reply, and an answer of /mcp carries the id of its request.
C11_AnswerComesFromOwnRequestAndReply ==
    /\ \A w \in BagToSet(inflight) : w.sent = OwnGets(w.req)
    /\ returned.sent # <<>> => returned.sent = OwnGets(returned.req)
    /\ (returned.req.surface \in RestSurfaces /\ returned.out.status = 200) =>
          /\ returned.out.body.o["search_string"]
                = Get(returned.req.payload, "search_string", JNull)
          /\ returned.out.body.o["results"] = returned.reply.value
    /\ (returned.req.surface \in RestSurfaces /\ returned.reply \in FailedReplies) =>
          returned.out.body.o["error"] = JStr(ReplyMessage(returned.reply))
    /\ (returned.req.surface = "mcp_post" /\ returned.req.payload.t = "obj") =>
          returned.out.body.o["id"] = Get(returned.req.payload, "id", JNull)

C11_Witness ==
    /\ returned.req.surface = "api_search"
    /\ returned.out.status = 200
    /\ \E w \in BagToSet(inflight) :
          /\ w.req.surface = "api_search"
          /\ w.req.payload # returned.req.payload

(***************************************************************************)
(* The encoded query as part of a URL (checked under SpecQuery).           *)
(***************************************************************************)
\* how often the character c stands in the text s
CountOf(s, c) == Cardinality({i \in 1..Len(s) : s[i] = c})

\* C12: for every term T the query holds no raw space and no raw "&": each
\* space of T stands in each of the seven clauses as %20 (next to the twelve
\* %20 of the six separators) and each "&" of T as %26.
C12_QueryHasNoRawSpaceOrAmpersand ==
    query # <<>> =>
        /\ \A i \in 1..Len(query) : query[i] \notin {" ", "&"}
        /\ Cardinality(Occurrences(query, <<"%", "2", "0">>)) = 12 + 7 * CountOf(term, " ")
        /\ Cardinality(Occurrences(query, <<"%", "2", "6">>)) = 7 * CountOf(term, "&")

C12_Witness ==
    /\ term = T_amp
    /\ query # <<>>
    /\ Contains(query, <<"t", "e", "s", "t", "%", "2", "0", "%", "2", "6", "%", "2", "0",
                         "q", "u", "e", "r", "y">>)

\* C13: for the term 'manfred heuberger' the query holds both words, with the
\* space between them encoded as %20, inside the title clause and inside the
\* creator clause.
C13_ManfredHeubergerInTitleAndCreator ==
    (term = T_manfred /\ query # <<>>) =>
        /\ Contains(query,
                    F_title \o <<"%", "3", "A", "%", "2", "8">>
                    \o <<"m", "a", "n", "f", "r", "e", "d">> \o <<"%", "2", "0">>
                    \o <<"h", "e", "u", "b", "e", "r", "g", "e", "r">>
                    \o <<"%", "2", "9", "%", "5", "E", "5">>)
        /\ Contains(query,
                    F_creator \o <<"%", "3", "A", "%", "2", "8">>
                    \o <<"m", "a", "n", "f", "r", "e", "d">> \o <<"%", "2", "0">>
                    \o <<"h", "e", "u", "b", "e", "r", "g", "e", "r">>
                    \o <<"%", "2", "9", "%", "5", "E", "2">>)

C13_Witness ==
    /\ term = T_manfred
    /\ query # <<>>
    /\ Contains(query, <<"d", "c", ".", "c", "r", "e", "a", "t", "o", "r", "%", "3", "A">>)
    /\ Cardinality(Occurrences(query, <<"h", "e", "u", "b", "e", "r", "g", "e", "r">>)) = 7

C15_TotalIsNumberOfPublications ==
    (returned.req.surface \in RestSurfaces /\ returned.out.status = 200) =>
        returned.out.body.o["total"] = JNum(publication_count(returned.out.body.o["results"]))

\* C16: POST /api/search and POST /connector answer HTTP 400 with an "error"
\* member whenever search_string is missing or invalid: the body is not JSON,
\* is no JSON object, or carries no non-empty string as search_string; never
\* 200 or 500.
C16_InvalidSearchStringAnswered400 ==
    (returned.req.surface \in RestSurfaces /\ ~ValidSearch(returned.req)) =>
        /\ returned.out.kind = "http"
        /\ returned.out.status = 400
        /\ "error" \in DOMAIN returned.out.body.o

\* C17: when the outbound GET of POST /api/search or POST /connector fails, the
\* handler does not raise: it answers HTTP 500 with the body {"error": message},
\* the message being that of the failure, and no results member.
C17_RestAnswers500OnFailedGet ==
    (returned.req.surface \in RestSurfaces /\ returned.reply \in FailedReplies) =>
        /\ returned.out.kind = "http"
        /\ returned.out.status = 500
        /\ DOMAIN returned.out.body.o = {"error"}
        /\ returned.out.body.o["error"] = JStr(ReplyMessage(returned.reply))

C17_Witness ==
    /\ returned.req.surface = "api_search"
    /\ returned.reply.kind = "http_status"
    /\ returned.out.status = 500
    /\ Len(returned.sent) = 1

(***************************************************************************)
(* JSON-RPC over POST /mcp (checked under Spec).                           *)
(***************************************************************************)
MethodOf(req) == Get(req.payload, "method", JNull)

\* a POST to /mcp with the method initialize or tools/list, or with tools/call
\* naming search_publications with a non-empty search_string
ServedRpc(req) ==
    /\ req.surface = "mcp_post"
    /\ req.payload.t = "obj"
    /\ \/ MethodOf(req) \in {JStr(<<"initialize">>), JStr(<<"tools/list">>)}
       \/ MethodOf(req) = JStr(<<"tools/call">>) /\ ValidSearch(req)

ToolMembers == {"name", "description", "inputSchema"}

\* C18: every POST to /mcp with the method initialize, tools/list, or tools/call
\* naming search_publications with a non-empty search_string is answered with
\* jsonrpc "2.0", the id of the request (null when it has none) and a result
\* member: protocolVersion and serverInfo for initialize, a non-empty tools
\* array whose entries have name, description and inputSchema for tools/list,
\* a content array for tools/call.
C18_McpAnswersJsonRpcResult ==
    ServedRpc(returned.req) =>
        /\ returned.out.kind = "http"
        /\ returned.out.status = 200
        /\ returned.out.body.o["jsonrpc"] = JStr(<<"2.0">>)
        /\ returned.out.body.o["id"] = Get(returned.req.payload, "id", JNull)
        /\ "result" \in DOMAIN returned.out.body.o
        /\ LET result == returned.out.body.o["result"]
           IN  /\ MethodOf(returned.req) = JStr(<<"initialize">>) =>
                     /\ "protocolVersion" \in DOMAIN result.o
                     /\ ~Falsy(result.o["protocolVersion"])
                     /\ "serverInfo" \in DOMAIN result.o
                     /\ ~Falsy(result.o["serverInfo"])
               /\ MethodOf(returned.req) = JStr(<<"tools/list">>) =>
                     /\ result.o["tools"].t = "arr"
                     /\ Len(result.o["tools"].items) > 0
                     /\ \A k \in 1..Len(result.o["tools"].items) :
                           ToolMembers \subseteq DOMAIN result.o["tools"].items[k].o
               /\ MethodOf(returned.req) = JStr(<<"tools/call">>) =>
                     /\ "content" \in DOMAIN result.o
                     /\ result.o["content"].t = "arr"

C18_Witness ==
    /\ ServedRpc(returned.req)
    /\ MethodOf(returned.req) = JStr(<<"tools/call">>)
    /\ Get(returned.req.payload, "id", JNull) = JNum(1)
    /\ returned.reply.kind = "json"
    /\ returned.out.status = 200

(***************************************************************************)
(* The transport main starts (checked under SpecMain).                     *)
(***************************************************************************)
\* MCP_TRANSPORT is set to "http" in some mix of upper and lower case
WantsHttp ==
    /\ environ.MCP_TRANSPORT # Absent
    /\ Len(environ.MCP_TRANSPORT.s) = 4
    /\ environ.MCP_TRANSPORT.s[1] \in {"h", "H"}
    /\ environ.MCP_TRANSPORT.s[2] \in {"t", "T"}
    /\ environ.MCP_TRANSPORT.s[3] \in {"t", "T"}
    /\ environ.MCP_TRANSPORT.s[4] \in {"p", "P"}

\* the port numbers the texts of PortTexts stand for
PortNumbers ==
    <<"8", "0", "0", "0">> :> 8000 @@ <<"8", "0", "8", "0">> :> 8080
    @@ <<"8", "0">> :> 80 @@ <<" ", "9", "0">> :> 90

ExpectedHost == IF environ.MCP_HOST = Absent THEN <<"0.0.0.0">> ELSE environ.MCP_HOST.s
ExpectedPort == IF environ.MCP_PORT = Absent THEN 8000 ELSE PortNumbers[environ.MCP_PORT.s]

\* HTTP mode is asked for and MCP_PORT is set to a text that is no integer
PortIsNoInteger ==
    /\ WantsHttp
    /\ environ.MCP_PORT # Absent
    /\ environ.MCP_PORT.s \notin DOMAIN PortNumbers

\* C19 as stated: main starts exactly one transport per run, the HTTP server
\* if and only if MCP_TRANSPORT equals "http" compared case-insensitively and
\* the stdio transport otherwise; in HTTP mode the host is MCP_HOST (default
\* 0.0.0.0) and the port is MCP_PORT (default 8000).
C19_MainStartsExactlyOneTransport ==
    running # NotStarted =>
        /\ running.transport \in {"http", "stdio"}
        /\ running.transport = "http" <=> WantsHttp
        /\ running.transport = "http" =>
              /\ running.host = ExpectedHost
              /\ running.port = ExpectedPort

\* C19 amended: main starts exactly one transport per run, the HTTP server if
\* and only if MCP_TRANSPORT equals "http" compared case-insensitively and the
\* stdio transport otherwise, with host MCP_HOST (default 0.0.0.0) and port
\* int(MCP_PORT) (default 8000) in HTTP mode; except that in HTTP mode with
\* MCP_PORT set to a text int() rejects, main raises ValueError and starts no
\* transport.
C19_MainStartsOneTransportUnlessPortIsNoInteger ==
    running # NotStarted =>
        IF PortIsNoInteger
        THEN running = MainRaised("ValueError")
        ELSE /\ running.transport \in {"http", "stdio"}
             /\ running.transport = "http" <=> WantsHttp
             /\ running.transport = "http" =>
                   /\ running.host = ExpectedHost
                   /\ running.port = ExpectedPort

C19_Witness ==
    /\ environ.MCP_TRANSPORT = JStr(<<"H", "T", "T", "P">>)
    /\ environ.MCP_HOST = JStr(<<"127.0.0.1">>)
    /\ environ.MCP_PORT = JStr(<<"8", "0", "8", "0">>)
    /\ running.transport = "http"
    /\ running.port = 8080

(***************************************************************************)
(* GET /health (checked under Spec).                                       *)
(***************************************************************************)
\* C20: GET /health answers HTTP 200 with a JSON body in which status is
\* "healthy", service is "dora-mcp" and a member "endpoints" is present, and
\* makes no outbound call.
C20_HealthAnswersWithEndpoints ==
    returned.req.surface = "health" =>
        /\ returned.out.kind = "http"
        /\ returned.out.status = 200
        /\ returned.out.body.o["status"] = JStr(<<"healthy">>)
        /\ returned.out.body.o["service"] = JStr(<<"dora-mcp">>)
        /\ "endpoints" \in DOMAIN returned.out.body.o
        /\ returned.sent = <<>>

(***************************************************************************)
(* GET /sse (checked under Spec).                                          *)
(***************************************************************************)
\* C21: GET /sse is a routed endpoint of the HTTP server and answers with
\* status 200.
C21_SseIsRoutedAndAnswers200 ==
    returned.req.surface = "sse" =>
        /\ returned.out.kind = "http"
        /\ returned.out.status = 200

(***************************************************************************)
(* Properties of the DoraClient variant and of validate_urls (checked      *)
(* under SpecStdio).                                                       *)
(***************************************************************************)
SearchesByDefaultQuery ==
    /\ returned.req.surface = "client_call_tool"
    /\ returned.req.name = JStr(<<"search_publications">>)
    /\ returned.req.payload.t = "obj"
    /\ "query" \notin DOMAIN returned.req.payload.o
    /\ returned.sent # <<>>

BuildsDefaultUrl ==
    /\ returned.req.surface = "build_search_url"
    /\ returned.req.payload.o["query"].s = <<"*", ":", "*">>
    /\ Falsy(returned.req.payload.o["filters"])

\* C22: the default query "*:*" addresses the URL
\* https://www.dora.lib4ri.ch/empa/islandora/search/json_cit_a/*:* with the
\* asterisks and the colon left as they are, both in the GET of
\* search_publications called without a query and in build_search_url.
C22_DefaultQueryKeepsAsterisks ==
    /\ SearchesByDefaultQuery =>
            returned.sent[1].url =
                <<"https://www.dora.lib4ri.ch/empa/islandora/search/json_cit_a",
                  "/", "*", ":", "*">>
    /\ BuildsDefaultUrl =>
            returned.out.body.s =
                <<"https://www.dora.lib4ri.ch/empa/islandora/search/json_cit_a",
                  "/", "*", ":", "*">>

SearchedByYear ==
    /\ returned.req.surface = "client_call_tool"
    /\ returned.req.name = JStr(<<"search_by_year">>)
    /\ returned.sent # <<>>

\* the call of search_by_date_range from the first to the last day of a year
DateRangeOfYear(year) ==
    client_call_tool_start(
        JStr(<<"search_by_date_range">>),
        JObj("start_date" :> JStr(PyStr(year) \o <<"-", "0", "1", "-", "0", "1">>)
             @@ "end_date" :> JStr(PyStr(year) \o <<"-", "1", "2", "-", "3", "1">>)))

\* C23: search_by_year(y) sends the request search_by_date_range(y-01-01,
\* y-12-31) sends: the default query with the one filter f[0] =
\* mods_originInfo_encoding_w3cdtf_keyDate_yes_dateIssued_dt:[y-01-01T00:00:00Z
\* TO y-12-31T23:59:59Z].
C23_YearIsDateRangeOfThatYear ==
    SearchedByYear =>
        /\ returned.sent = DateRangeOfYear(returned.req.payload.o["year"]).gets
        /\ returned.sent[1].url = search_url(client_DORA_BASE_URL, <<"*", ":", "*">>)
        /\ Len(returned.sent[1].params) = 1
        /\ returned.sent[1].params[1].key = <<"f[", "0", "]">>
        /\ Flatten(<<returned.sent[1].params[1].value>>) =
               <<"mods_originInfo_encoding_w3cdtf_keyDate_yes_dateIssued_dt:", "[">>
               \o PyStr(returned.req.payload.o["year"])
               \o <<"-", "0", "1", "-", "0", "1", "T", "0", "0", ":", "0", "0", ":", "0", "0", "Z">>
               \o <<" TO ">>
               \o PyStr(returned.req.payload.o["year"])
               \o <<"-", "1", "2", "-", "3", "1", "T", "2", "3", ":", "5", "9", ":", "5", "9", "Z">>
               \o <<"]">>

C23_Witness ==
    /\ SearchedByYear
    /\ returned.req.payload.o["year"] = JStr(<<"5">>)
    /\ returned.reply.kind = "json"
    /\ returned.out.kind = "return"

(***************************************************************************)
(* Errors and methods of JSON-RPC over POST /mcp (checked under Spec).     *)
(***************************************************************************)
\* the id a JSON-RPC answer has to carry: the one of the request, null when
\* the body carried none
IdOfRequest(req) == IF req.payload.t = "obj" THEN Get(req.payload, "id", JNull) ELSE JNull

\* C24: every POST to /mcp, also with a body that is no JSON, a JSON value that
\* is no object, or params that is no object, is answered with a JSON-RPC
\* response; when handling throws, the answer is HTTP 500 with the error code
\* -32603 and the id of the request (null when the body carried none); the
\* exception handler itself never raises.
C24_McpPostAlwaysAnswersJsonRpc ==
    returned.req.surface = "mcp_post" =>
        /\ returned.out.kind = "http"
        /\ returned.out.body.t = "obj"
        /\ returned.out.body.o["jsonrpc"] = JStr(<<"2.0">>)
        /\ returned.out.status = 500 =>
              /\ returned.out.body.o["error"].o["code"] = JNum(-32603)
              /\ returned.out.body.o["id"] = IdOfRequest(returned.req)

ServedMethods == {JStr(<<"initialize">>), JStr(<<"tools/list">>), JStr(<<"tools/call">>)}

\* the methods named after "Supported methods: " in the instructions of GET /mcp
MethodsOfInstructions(body) ==
    LET line == body.o["usage"].o["instructions"].items[3].s
    IN  {JStr(<<line[k]>>) : k \in {j \in 2..Len(line) : j % 2 = 0}}

\* the method enum of the body schema of POST /mcp in /openapi-copilot.json
MethodsOfOpenApi(body) ==
    LET enum == body.o["paths"].o["/mcp"].o["post"].o["parameters"].items[1]
                    .o["schema"].o["properties"].o["method"].o["enum"].items
    IN  {enum[k] : k \in 1..Len(enum)}

\* C25: POST /mcp answers exactly the methods initialize, tools/list and
\* tools/call with a result, the set GET /mcp and the method enum of
\* /openapi-copilot.json advertise; any other method, a missing one included,
\* is answered with HTTP 200 and the JSON-RPC error -32601 carrying the id of
\* the request, without an outbound call.
C25_ServedMethodsAreTheAdvertisedOnes ==
    /\ (returned.req.surface = "mcp_post" /\ returned.req.payload.t = "obj") =>
          /\ (returned.out.kind = "http" /\ "result" \in DOMAIN returned.out.body.o) =>
                MethodOf(returned.req) \in ServedMethods
          /\ MethodOf(returned.req) \in {JStr(<<"initialize">>), JStr(<<"tools/list">>)} =>
                "result" \in DOMAIN returned.out.body.o
          /\ (MethodOf(returned.req) = JStr(<<"tools/call">>) /\ returned.sent # <<>>) =>
                "result" \in DOMAIN returned.out.body.o
          /\ MethodOf(returned.req) \notin ServedMethods =>
                /\ returned.out.kind = "http"
                /\ returned.out.status = 200
                /\ "result" \notin DOMAIN returned.out.body.o
                /\ returned.out.body.o["error"].o["code"] = JNum(-32601)
                /\ returned.out.body.o["id"] = IdOfRequest(returned.req)
                /\ returned.sent = <<>>
    /\ returned.req.surface = "mcp_get" =>
          MethodsOfInstructions(returned.out.body) = ServedMethods
    /\ returned.req.surface = "openapi_copilot" =>
          /\ returned.out.status = 200
          /\ MethodsOfOpenApi(returned.out.body) = ServedMethods

C25_Witness ==
    /\ returned.req.surface = "mcp_post"
    /\ returned.req.payload.t = "obj"
    /\ MethodOf(returned.req) = JStr(<<"ping">>)
    /\ IdOfRequest(returned.req) = JNum(1)
    /\ returned.out.status = 200

\* a tools/call on /mcp whose outbound GET failed
ToolsCallWithFailedGet ==
    /\ returned.req.surface = "mcp_post"
    /\ returned.req.payload.t = "obj"
    /\ MethodOf(returned.req) = JStr(<<"tools/call">>)
    /\ returned.reply \in FailedReplies

\* a tools/call on /mcp refused before any GET: no search_string, or a tool
\* that is not search_publications
ToolsCallRefused ==
    /\ returned.req.surface = "mcp_post"
    /\ returned.req.payload.t = "obj"
    /\ MethodOf(returned.req) = JStr(<<"tools/call">>)
    /\ Get(returned.req.payload, "params", JObj(NoMembers)).t = "obj"
    /\ returned.sent = <<>>

\* C26 as stated: a failed outbound GET during a tools/call on /mcp is answered
\* with an error member, no result member, and the id of the request.
C26_FailedGetIsJsonRpcError ==
    ToolsCallWithFailedGet =>
        /\ returned.out.kind = "http"
        /\ "error" \in DOMAIN returned.out.body.o
        /\ "result" \notin DOMAIN returned.out.body.o
        /\ returned.out.body.o["id"] = IdOfRequest(returned.req)

\* C26: a failed outbound GET during a tools/call on /mcp is answered with HTTP
\* 200 and a result member (no error member) carrying the id of the request,
\* whose content is one text starting with "Error searching DORA: "; the error
\* member (code -32603, HTTP 500, no result) answers a tools/call without
\* search_string or for an unknown tool.
C26_FailedGetIsResultWithErrorText ==
    /\ ToolsCallWithFailedGet =>
          /\ returned.out.kind = "http"
          /\ returned.out.status = 200
          /\ "result" \in DOMAIN returned.out.body.o
          /\ "error" \notin DOMAIN returned.out.body.o
          /\ returned.out.body.o["id"] = IdOfRequest(returned.req)
          /\ Len(returned.out.body.o["result"].o["content"].items) = 1
          /\ returned.out.body.o["result"].o["content"].items[1].o["text"].s[1]
                = "Error searching DORA: "
    /\ ToolsCallRefused =>
          /\ returned.out.kind = "http"
          /\ returned.out.status = 500
          /\ "result" \notin DOMAIN returned.out.body.o
          /\ returned.out.body.o["error"].o["code"] = JNum(-32603)
          /\ returned.out.body.o["id"] = IdOfRequest(returned.req)

C26_Witness ==
    /\ ToolsCallWithFailedGet
    /\ returned.reply.kind = "http_status"
    /\ IdOfRequest(returned.req) = JNum(1)
    /\ returned.out.status = 200

(***************************************************************************)
(* The separators of the query (checked under SpecQuery).                  *)
(***************************************************************************)
\* C27 as stated: for every term the query has exactly six occurrences of
\* "%20OR%20", and splitting it there gives seven pieces, the i-th being the
\* percent-encoding of the i-th field clause, also for a term that contains
\* " OR " or "%20OR%20".
C27_SplitGivesTheSevenClauses ==
    query # <<>> =>
        LET pieces == Split(query, <<"%", "2", "0", "O", "R", "%", "2", "0">>)
        IN  /\ Len(pieces) = 7
            /\ \A i \in 1..7 : pieces[i] = QuoteWith(query_parts(term)[i], {"/"})

\* C27: the query splits at "%20OR%20" into seven pieces, the i-th being the
\* percent-encoding of the i-th field clause, for every term that does not
\* contain " OR ", one that contains "%20OR%20" included; every " OR " in the
\* term is encoded to the separator in each of the seven clauses, so a term
\* that splits at " OR " into k pieces gives a query of 7 * k pieces.
C27_SplitGivesSevenPiecesPerTermPiece ==
    query # <<>> =>
        LET pieces == Split(query, <<"%", "2", "0", "O", "R", "%", "2", "0">>)
        IN  /\ Len(pieces) = 7 * Len(Split(term, <<" ", "O", "R", " ">>))
            /\ ~Contains(term, <<" ", "O", "R", " ">>) =>
                  /\ Len(pieces) = 7
                  /\ \A i \in 1..7 : pieces[i] = QuoteWith(query_parts(term)[i], {"/"})

C27_Witness ==
    /\ term = T_or
    /\ query # <<>>
    /\ Len(Split(query, <<"%", "2", "0", "O", "R", "%", "2", "0">>)) = 14

(***************************************************************************)
(* Tools and errors of the two server variants (checked under SpecStdio).  *)
(***************************************************************************)
\* the names list_tools advertises in the variant that runs
AdvertisedNames ==
    IF variant = "client"
    THEN {JStr(client_list_tools[i].name) : i \in 1..Len(client_list_tools)}
    ELSE {JStr(list_tools[i].name) : i \in 1..Len(list_tools)}

\* the answered call was refused as a call of an unknown tool
RefusedAsUnknown ==
    \/ /\ returned.out.kind = "raise"
       /\ returned.out.exc = "ValueError"
       /\ returned.out.msg[1] = "Unknown tool: "
    \/ /\ returned.out.kind = "return"
       /\ SubSeq(returned.out.body.items[1].o["text"].s, 1, 2) = <<"Error: ", "Unknown tool: ">>

ToolCallSurfaces == {"call_tool", "client_call_tool"}

\* C28: in both server variants call_tool dispatches to exactly the tools
\* list_tools advertises (one in the server, three in the DoraClient variant):
\* a call of an advertised tool is handled, a call of any other name is
\* refused as unknown and sends nothing, and list_tools answers with those
\* names.
C28_DispatchedToolsAreTheAdvertisedOnes ==
    /\ \A w \in BagToSet(inflight) :
          w.req.surface \in ToolCallSurfaces => w.req.name \in AdvertisedNames
    /\ returned.req.surface \in ToolCallSurfaces =>
          /\ returned.req.name \in AdvertisedNames => ~RefusedAsUnknown
          /\ returned.req.name \notin AdvertisedNames =>
                /\ RefusedAsUnknown
                /\ returned.sent = <<>>
    /\ returned.req.surface = "client_list_tools" =>
          {returned.out.body.items[i] : i \in 1..Len(returned.out.body.items)}
              = {JStr(<<"search_publications">>), JStr(<<"search_by_year">>),
                 JStr(<<"search_by_date_range">>)}
    /\ returned.req.surface = "list_tools" =>
          {returned.out.body.items[i].o["name"] : i \in 1..Len(returned.out.body.items)}
              = {JStr(<<"search_publications">>)}

C28_Witness ==
    /\ variant = "client"
    /\ returned.req.surface = "client_call_tool"
    /\ returned.req.name = JStr(<<"search_by_date_range">>)
    /\ returned.reply.kind = "json"
    /\ returned.out.kind = "return"
    /\ returned.out.body.items[1].o["text"].s[1] = "Publications from "

\* the call lacks an argument its tool requires
MissesRequired(req) ==
    \E i \in 1..Len(client_list_tools) :
        /\ req.name = JStr(client_list_tools[i].name)
        /\ \E k \in 1..Len(client_list_tools[i].required) :
              \/ req.payload.t # "obj"
              \/ client_list_tools[i].required[k] \notin DOMAIN req.payload.o

\* C29: call_tool of the DoraClient variant never raises, for any tool name
\* and any arguments: it returns exactly one TextContent, whose text starts
\* with "Error: " for an unknown tool, a missing required argument (year,
\* start_date, end_date) or a failed GET; and the shared client is closed
\* exactly once when main exits, whether app.run returns or raises.
C29_ClientCallToolNeverRaisesAndClientClosedOnce ==
    /\ returned.req.surface = "client_call_tool" =>
          /\ returned.out.kind = "return"
          /\ returned.out.body.t = "arr"
          /\ Len(returned.out.body.items) = 1
          /\ returned.out.body.items[1].o["type"] = JStr(<<"text">>)
          /\ ( \/ returned.req.name \notin {JStr(<<"search_publications">>),
                                            JStr(<<"search_by_year">>),
                                            JStr(<<"search_by_date_range">>)}
               \/ MissesRequired(returned.req)
               \/ returned.reply \in FailedReplies ) =>
                returned.out.body.items[1].o["text"].s[1] = "Error: "
    /\ variant = "client" =>
          closes = IF running.transport = "exited" THEN 1 ELSE 0

C29_Witness ==
    /\ returned.req.surface = "client_call_tool"
    /\ returned.req.name = JStr(<<"search_by_year">>)
    /\ returned.reply.kind = "connect_error"
    /\ returned.out.body.items[1].o["text"].s[1] = "Error: "
    /\ running = MainExited("Exception")
    /\ closes = 1

(***************************************************************************)
(* Every request is answered (checked under SpecLive).                     *)
(***************************************************************************)
\* req waits for its outbound GET
Waits(req) == \E w \in BagToSet(inflight) : w.req = req

\* the last answer is the one to req, given after its GET
AnsweredAfterGet(req) ==
    /\ returned.req = req
    /\ returned.sent # <<>>
    /\ returned.reply \in Replies
    /\ returned.out.kind # "none"

\* a step of the server: a request starts to wait and nothing is answered, or
\* a request is answered at once and none waits for it, or one waiting request
\* is answered and waits no longer
AnswersOnce ==
    \/ /\ returned' = returned
       /\ \E req \in Searching :
             inflight' = inflight (+) SetToBag({[req |-> req, sent |-> Started[req].gets]})
    \/ /\ inflight' = inflight
       /\ returned'.sent = <<>>
       /\ returned'.req \notin Searching
    \/ \E w \in BagToSet(inflight) :
          /\ inflight' = inflight (-) SetToBag({w})
          /\ returned'.req = w.req
          /\ returned'.sent = w.sent
          /\ returned'.reply \in Replies

\* C30: every inbound request eventually receives exactly one response,
\* provided its outbound GET eventually ends with a reply, an error or the
\* timeout: a waiting request is answered in the end, and no step answers a
\* request without ending its wait or answers one that does not wait.
C30_EveryRequestIsAnsweredOnce ==
    /\ \A req \in Searching : Waits(req) ~> AnsweredAfterGet(req)
    /\ [][AnswersOnce]_vars

C30_Witness ==
    /\ returned.req \in Searching
    /\ returned.req.surface = "api_search"
    /\ returned.reply.kind = "timeout"
    /\ returned.out.kind = "http"
    /\ Waits(returned.req)
====
